---- MODULE Spec2Model ----
(***************************************************************************)
(* build-kg: the batch job controller of src/build_kg/parse_batch.py      *)
(* (prepare, submit, status, process) and the graph loader it drives.     *)
(*                                                                         *)
(* The command line runs one stage per invocation, so the stages          *)
(* interleave at the granularity of a command; the reconciliation loop of *)
(* process_results is split into one step per result line, the point at   *)
(* which its counters and the graph store can be observed.                *)
(***************************************************************************)
EXTENDS Integers, Sequences, FiniteSets, TLC

\* ------------------------------------------------------------------ bounds

\* Fragments one prepare puts in a manifest (--limit).
MaxLines == 2
\* process invocations.
MaxPasses == 2
\* Statements the graph store rejects.
MaxDbFailures == 1
\* Status fetches of one check_status call.
MaxFetches == 3
\* Entities in one parsed result handed to a loader on its own.
MaxEntities == 2
\* Characters of a value handed to an escape routine.
MaxValueLen == 3
\* The words of a text handed to the id extractor, at most.
MaxTokens == 3
\* The page limit a crawler is constructed with, at most.
MaxPages == 4
\* The depth limit a crawler is constructed with, at most.
MaxDepth == 3

\* ------------------------------------------------------- program constants

\* fragment_id[:8] in the synthetic ids.
IdPrefixLen == 8
\* str(value)[:500] of a property value.
PropertyMaxLen == 500

\* ---------------------------------------------------------------- the data

\* The rows of source_fragment, in created_at order. A fragment_id is the
\* sequence of its characters, so that fragment_id[:8] is computed.
Fragments ==
    << [fragment_id |-> <<"a","a","a","a","a","a","a","a","1">>, doc_id |-> "doc1",
        excerpt |-> "excerpt1", jurisdiction |-> "CA", authority |-> "CFIA"],
       [fragment_id |-> <<"a","a","a","a","a","a","a","a","2">>, doc_id |-> "doc2",
        excerpt |-> "excerpt2", jurisdiction |-> "CA", authority |-> "CFIA"],
       [fragment_id |-> <<"b","b","b","b","b","b","b","b","1">>, doc_id |-> "doc3",
        excerpt |-> "excerpt3", jurisdiction |-> "US", authority |-> "FDA"],
       [fragment_id |-> <<"b","b","b","b","b","b","b","b","2">>, doc_id |-> "doc3",
        excerpt |-> "excerpt4", jurisdiction |-> "", authority |-> ""] >>

\* --output of prepare.
OutputNames == {"batch_requests.jsonl", "retry.jsonl"}

\* The ids the provider issues, in this order.
BatchIds == {1, 2}

TerminalStatuses == {"completed", "failed", "expired", "cancelled"}
Statuses == {"validating", "in_progress", "finalizing", "cancelling"} \cup TerminalStatuses

\* --ontology of process: absent, or an ontology with nodes and json_schema.
NoOntology == [given |-> FALSE, nodes |-> 0, json_schema |-> "", root_node |-> ""]
OntologyArgs ==
    { NoOntology,
      [given |-> TRUE, nodes |-> 1, json_schema |-> "{entities, relationships}", root_node |-> "Thing"] }

\* OntologyConfig() of a profile that declares no ontology.
EmptyOntology == [given |-> TRUE, nodes |-> 0, json_schema |-> "", root_node |-> ""]

\* The profiles of the domains directory: default declares no ontology,
\* financial-aml declares one.
DefaultProfile ==
    [name |-> "default",
     parsing |-> [system_message |-> "knowledge extraction expert", prompt_template |-> ""],
     ontology |-> EmptyOntology]
AmlProfile ==
    [name |-> "financial-aml",
     parsing |-> [system_message |-> "AML compliance expert", prompt_template |-> ""],
     ontology |-> [given |-> TRUE, nodes |-> 3, json_schema |-> "{provisions, requirements}",
                   root_node |-> "Provision"]]
Profiles == {DefaultProfile, AmlProfile}

\* _active_profile is None; also a profile or ontology argument left out.
NoProfile == [name |-> ""]

\* A string is the sequence of its characters; "bs", "sq", "dq" and "nl"
\* stand for the backslash, the single quote, the double quote and the
\* newline, "sp" for the space, and any other word is a run of characters
\* none of which is one of these.
Special == {"bs", "sq", "dq", "nl"}

\* An entity of the LLM output: its _label ("" when the key is absent) and
\* one string property, name.
Entity(label, name) == [_label |-> label, name |-> name]

\* A relationship of the LLM output. Its _label is left to its default.
Relationship(from_index, to_index) ==
    [_from_index |-> from_index, _to_index |-> to_index]

\* What one line of the results file carries: a provider error, a response
\* without choices, or the content of choices[0].message: text that is not
\* JSON, JSON that is not an object, or an object with its entities,
\* relationships and requirements arrays.
EntityPayload ==
    [kind |-> "object", entities |-> <<Entity("", <<"x">>)>>,
     relationships |-> <<>>, requirements |-> 0]
Payloads ==
    { [kind |-> k, entities |-> <<>>, relationships |-> <<>>, requirements |-> 0] :
          k \in {"error", "nochoices", "malformed", "nonobject"} }
    \cup
    { [kind |-> "object", entities |-> e, relationships |-> <<>>, requirements |-> 0] :
          e \in { <<>>,
                  <<Entity("", <<"x">>)>>,
                  <<Entity("Rule", <<"x">>), Entity("", <<"x">>)>> } }
    \cup
    { [kind |-> "object", entities |-> <<>>, relationships |-> <<>>, requirements |-> 1] }

VARIABLES
    manifest,     \* batch_data/<name>: the custom_ids of its request lines, <<>> when absent
    sidecar,      \* batch_data/<name>.metadata.json: metadata['fragments'], <<>> when absent
    mtimeOrder,   \* the existing side-cars, most recently modified first
    info,         \* batch_data/batch_<id>.info.json: its batch_file, "" when absent
    resultsFile,  \* the batch ids whose batch_<id>_results.jsonl was written
    bstatus,      \* provider: the status last reported for the batch, "none" before it is created
    binput,       \* provider: the uploaded request lines of the batch
    boutput,      \* provider: the lines of the batch's output file
    graph,        \* graph store: the statements executed, in order
    pc,           \* BatchProcessor.process_results: "idle", "loop" or "ended"
    p_batch,      \* its batch_id
    p_ont,        \* self.ontology
    p_meta,       \* metadata_file, "" when none resolved
    p_lookup,     \* the fragments of the metadata it loaded
    idx,          \* the result line the loop is at
    stats,        \* stats
    handled,      \* how each line read so far was disposed of
    p_issued,     \* for each of them, the statements executed for it
    outcome,      \* how the invocation ended
    db_conn,      \* self.db_conn: "none", "open" or "closed"
    nPasses, nDbFailures,
    passesDone,   \* per batch, the ontology-mode passes that reached the summary
    m_pc,         \* BatchMonitor.check_status: "idle", "fetch", "sleep" or "returned"
    m_batch, m_watch,
    m_fetches,    \* the calls of batches.retrieve so far
    m_last,       \* the status the last fetch returned
    r_last,       \* the arguments of the last prepare command, <<>> before the first
    r_again,      \* the last prepare command repeated the one before it
    active_profile, \* domain._active_profile of the running process
    last_op,      \* the last call into the domain module, with what it returned
    last_set,     \* the profile of the last set_profile no reset_profile followed
    bp_prev, bp_last, \* the last two calls of build_prompt: arguments and result
    l_pc,         \* a loader on its own: "first", "second" or "done"
    l_loader,     \* "batch" (BatchProcessor) or "sync" (KGParser)
    l_calls,      \* its calls: arguments, the statements executed, the value returned
    e_value,      \* the value handed to an escape routine
    e_routine,    \* the routine, "none" before the call
    e_text,       \* what it returned
    dm_base, dm_override, \* the two mappings handed to _deep_merge
    dm_merged,    \* <<what it returned>>, <<>> before the call
    dm_again,     \* <<_deep_merge(that, {})>>, <<>> before that call
    domains,      \* DOMAINS_DIR: the raw mapping of <name>.yaml for each file in it
    lp_last,      \* what the last load_profile call did, <<>> before the first
    x_text, x_locator, x_authority, \* the arguments of ProvisionIDExtractor.extract
    x_result,     \* <<the ExtractionResult>>, <<>> before the call
    x_tried,      \* the candidates _is_excluded was asked about, with its answers
    max_pages, max_depth, \* WebCrawler: self.max_pages, self.max_depth
    visited_urls, \* self.visited_urls
    pages_crawled, \* self.pages_crawled
    queue,        \* crawl: its queue of (url, depth)
    c_pc,         \* crawl: "new" before the call, "loop" or "done"
    crawled       \* the (url, depth) of every page crawl_page went on to fetch, in order

fsVars == <<manifest, sidecar, mtimeOrder, info, resultsFile>>
providerVars == <<bstatus, binput, boutput>>
procVars == <<pc, p_batch, p_ont, p_meta, p_lookup, idx, stats, handled, p_issued, outcome,
              db_conn>>
countVars == <<nPasses, nDbFailures, passesDone>>
monVars == <<m_pc, m_batch, m_watch, m_fetches, m_last>>
runVars == <<r_last, r_again>>
profVars == <<active_profile, last_op, last_set, bp_prev, bp_last>>
loadVars == <<l_pc, l_loader, l_calls>>
escVars == <<e_value, e_routine, e_text>>
mergeVars == <<dm_base, dm_override, dm_merged, dm_again>>
dirVars == <<domains, lp_last>>
extractVars == <<x_text, x_locator, x_authority, x_result, x_tried>>
crawlVars == <<max_pages, max_depth, visited_urls, pages_crawled, queue, c_pc, crawled>>
toolVars == <<mergeVars, dirVars, extractVars, crawlVars>>
libVars == <<profVars, loadVars, escVars, toolVars>>
batchVars == <<fsVars, providerVars, procVars, countVars, monVars, runVars>>
vars == <<fsVars, providerVars, graph, procVars, countVars, monVars, runVars, libVars>>

\* ---------------------------------------------------------------- helpers

Min(a, b) == IF a < b THEN a ELSE b

Remove(seq, x) == SelectSeq(seq, LAMBDA y : y # x)

\* fragment_id[:8]
IdPrefix(fragment_id) == SubSeq(fragment_id, 1, Min(IdPrefixLen, Len(fragment_id)))

\* fetch_fragments: LIMIT and OFFSET are applied only when limit is not 0.
FetchFragments(offset, limit) ==
    IF limit = 0 THEN Fragments
    ELSE SubSeq(Fragments, offset + 1, Min(Len(Fragments), offset + limit))

\* ----------------------------------------------------- the escape routines

\* str.replace(old, new) for a one-character old.
RECURSIVE Replace(_, _, _)
Replace(value, old, new) ==
    IF value = <<>> THEN <<>>
    ELSE (IF Head(value) = old THEN new ELSE <<Head(value)>>)
            \o Replace(Tail(value), old, new)

\* EscapeCypher with the quotes escaped before the backslashes.
EscapeCypherQuotesFirst(value) ==
    Replace(Replace(Replace(Replace(value,
        "sq", <<"bs", "sq">>), "dq", <<"bs", "dq">>), "bs", <<"bs", "bs">>),
        "nl", <<"sp">>)

\* BatchProcessor._escape_cypher: backslash, single quote, double quote,
\* newline, in this order.
EscapeCypher(value) ==
    Replace(Replace(Replace(Replace(value,
        "bs", <<"bs", "bs">>), "sq", <<"bs", "sq">>), "dq", <<"bs", "dq">>),
        "nl", <<"sp">>)

\* escape, the local function of BatchProcessor.load_to_graph.
Escape(value) ==
    LET s == Replace(value, "bs", <<"bs", "bs">>)
    IN  Replace(Replace(Replace(s, "sq", <<"bs", "sq">>), "dq", <<"bs", "dq">>),
                "nl", <<"sp">>)

\* KGParser._escape_cypher: newlines are left as they are.
SyncEscapeCypher(value) ==
    Replace(Replace(Replace(value,
        "bs", <<"bs", "bs">>), "sq", <<"bs", "sq">>), "dq", <<"bs", "dq">>)

\* KGParser.load_to_graph on the properties of the Provision and on the
\* description of a Requirement: the two quotes only.
SyncEscapeQuotes(value) ==
    Replace(Replace(value, "sq", <<"bs", "sq">>), "dq", <<"bs", "dq">>)

\* KGParser.load_to_graph on target_signal and pattern: the single quote only.
SyncEscapeSingleQuote(value) == Replace(value, "sq", <<"bs", "sq">>)

EscapeRoutines ==
    {"EscapeCypher", "Escape", "SyncEscapeCypher", "SyncEscapeQuotes",
     "SyncEscapeSingleQuote"}

\* The routine of that name applied to a value.
EscapeBy(routine, value) ==
    CASE routine = "EscapeCypher"          -> EscapeCypher(value)
      [] routine = "Escape"                -> Escape(value)
      [] routine = "SyncEscapeCypher"      -> SyncEscapeCypher(value)
      [] routine = "SyncEscapeQuotes"      -> SyncEscapeQuotes(value)
      [] routine = "SyncEscapeSingleQuote" -> SyncEscapeSingleQuote(value)

\* str(value)[:500]
Truncate(value) == SubSeq(value, 1, Min(PropertyMaxLen, Len(value)))

\* ------------------------------------------------------------ the provider

\* The statuses the provider moves a batch through.
StatusAfter(status) ==
    CASE status = "validating"  -> {"in_progress", "failed"}
      [] status = "in_progress" -> {"finalizing", "expired", "cancelling"}
      [] status = "finalizing"  -> {"completed"}
      [] status = "cancelling"  -> {"cancelled"}
      [] OTHER                  -> {}

\* The statuses a fetch can report for a batch last seen in `status`: the
\* provider has made any number of moves since.
RECURSIVE Reach(_, _)
Reach(seen, n) ==
    IF n = 0 THEN seen
    ELSE Reach(seen \cup UNION { StatusAfter(s) : s \in seen }, n - 1)
StatusNow(status) == Reach({status}, Cardinality(Statuses))

\* client.batches.retrieve(batch_id): the status reported, and the output
\* file the batch has from the moment it is completed, one line per request.
Retrieve(batch_id, status, payloads) ==
    /\ status \in StatusNow(bstatus[batch_id])
    /\ bstatus' = [bstatus EXCEPT ![batch_id] = status]
    /\ IF status = "completed" /\ bstatus[batch_id] # "completed"
       THEN \E out \in [1..Len(binput[batch_id]) -> payloads] :
                boutput' = [boutput EXCEPT ![batch_id] =
                    [i \in 1..Len(binput[batch_id]) |->
                        [custom_id |-> binput[batch_id][i].custom_id,
                         payload |-> out[i]]]]
       ELSE UNCHANGED boutput
    /\ UNCHANGED binput

\* ------------------------------------------------------ the domain module

\* The values of a raw profile, as yaml.safe_load returns them: a mapping
\* (dict), a list, or a scalar.
Mapping(items) == [kind |-> "dict", items |-> items]
ListValue(elements) == [kind |-> "list", elements |-> elements]
Scalar(value) == [kind |-> "scalar", scalar |-> value]
IsMapping(value) == value.kind = "dict"

\* {}
EmptyDict == <<>>

\* The mappings over a set of keys whose values come from a set of values.
DictsOver(keys, values) ==
    UNION { [ks -> values] : ks \in SUBSET keys }

\* _deep_merge with the base winning where both define a value.
RECURSIVE DeepMergeBaseWins(_, _)
DeepMergeBaseWins(base, override) ==
    [ key \in DOMAIN override \cup DOMAIN base |->
        IF key \in DOMAIN base
        THEN IF key \in DOMAIN override /\ IsMapping(base[key]) /\ IsMapping(override[key])
             THEN Mapping(DeepMergeBaseWins(base[key].items, override[key].items))
             ELSE base[key]
        ELSE override[key] ]

\* _deep_merge(base, override): the override's keys, merged with the base's
\* value where both values are dicts and the override's value otherwise, then
\* the keys only the base has.
RECURSIVE DeepMerge(_, _)
DeepMerge(base, override) ==
    [ key \in DOMAIN override \cup DOMAIN base |->
        IF key \in DOMAIN override
        THEN IF key \in DOMAIN base /\ IsMapping(base[key]) /\ IsMapping(override[key])
             THEN Mapping(DeepMerge(base[key].items, override[key].items))
             ELSE override[key]
        ELSE base[key] ]

\* get_default_profile_name: the DOMAIN setting, 'default' when unset.
DefaultProfileName == "default"

\* The files of the domains directory as shipped: default.yaml declares
\* only its name, financial-aml.yaml a system message and an ontology.
BuiltinDomains ==
    [ name \in {"default", "financial-aml"} |->
        IF name = "default" THEN [ key \in {"name"} |-> Scalar("default") ]
        ELSE [ key \in {"name", "parsing", "ontology"} |->
                 CASE key = "name" -> Scalar("financial-aml")
                   [] key = "parsing" ->
                        Mapping([ k \in {"system_message"} |-> Scalar("AML compliance expert") ])
                   [] key = "ontology" ->
                        Mapping([ k \in {"nodes", "json_schema", "root_node"} |->
                                    CASE k = "nodes" ->
                                           ListValue(<<"Provision", "Requirement", "Constraint">>)
                                      [] k = "json_schema" -> Scalar("{provisions, requirements}")
                                      [] k = "root_node" -> Scalar("Provision") ]) ] ]

\* list_profiles: the stems of the *.yaml files of the directory.
ListProfiles(dir) == DOMAIN dir

\* dict.get(key) of a mapping whose value, when present, is a scalar.
GetScalar(mapping, key, default) ==
    IF key \in DOMAIN mapping /\ mapping[key].kind = "scalar"
    THEN mapping[key].scalar ELSE default

\* mapping.get(key, {}) where the value is a mapping.
GetMapping(mapping, key) ==
    IF key \in DOMAIN mapping /\ mapping[key].kind = "dict"
    THEN mapping[key].items ELSE EmptyDict

\* DomainProfile(**raw) for a raw mapping with a name: every field left out
\* takes the default of its pydantic model.
ValidateProfile(raw) ==
    LET parsing == GetMapping(raw, "parsing")
        ontology == GetMapping(raw, "ontology")
    IN  [name |-> raw["name"].scalar,
         parsing |-> [system_message |-> GetScalar(parsing, "system_message",
                                                   "knowledge extraction expert"),
                      prompt_template |-> GetScalar(parsing, "prompt_template", "")],
         ontology |-> [given |-> TRUE,
                       nodes |-> IF "nodes" \in DOMAIN ontology
                                 THEN Len(ontology["nodes"].elements) ELSE 0,
                       json_schema |-> GetScalar(ontology, "json_schema", ""),
                       root_node |-> GetScalar(ontology, "root_node", "")]]

\* raw after the `extends` step of load_profile: _load_raw_profile reads the
\* named base as it is in its file, and the two are merged once.
ResolveExtends(dir, raw) ==
    IF GetScalar(raw, "extends", "") \in DOMAIN dir
    THEN DeepMerge(dir[GetScalar(raw, "extends", "")], raw)
    ELSE raw

\* LoadProfileIn whose not-found message names no profile.
LoadProfileInNoList(dir, name) ==
    IF name \notin DOMAIN dir
    THEN [raised |-> "FileNotFoundError: Domain profile not found",
          available |-> {}, profile |-> NoProfile]
    ELSE [raised |-> "", available |-> {},
          profile |-> ValidateProfile(ResolveExtends(dir, dir[name]))]

\* load_profile(name) in a domains directory: what it raises ("" when it
\* returns), the names its message lists, and the profile it returns.
LoadProfileIn(dir, name) ==
    IF name \notin DOMAIN dir
    THEN [raised |-> "FileNotFoundError: Domain profile not found",
          available |-> ListProfiles(dir), profile |-> NoProfile]
    ELSE IF GetScalar(dir[name], "extends", "") \notin DOMAIN dir \cup {""}
    THEN [raised |-> "FileNotFoundError: Base profile not found",
          available |-> {}, profile |-> NoProfile]
    ELSE IF "name" \notin DOMAIN ResolveExtends(dir, dir[name])
    THEN [raised |-> "ValidationError", available |-> {}, profile |-> NoProfile]
    ELSE [raised |-> "", available |-> {},
          profile |-> ValidateProfile(ResolveExtends(dir, dir[name]))]

\* load_profile(name) where it returns: the profile of that name in the
\* domains directory.
LoadProfile(name) == LoadProfileIn(domains, name).profile

\* GetProfile that loads whatever is cached.
GetProfileAlwaysLoads(cached) == LoadProfile(DefaultProfileName)

\* get_profile: the value returned, which is also the value cached.
GetProfile(cached) ==
    IF cached = NoProfile THEN LoadProfile(DefaultProfileName) ELSE cached

\* source_context of _build_ontology_prompt.
SourceContext(authority, jurisdiction) ==
    IF authority # "" /\ jurisdiction # "" THEN <<authority, jurisdiction>>
    ELSE IF authority # "" THEN <<authority>>
    ELSE <<>>

\* _build_ontology_prompt: the node and edge descriptions and the
\* json_schema of the ontology around the excerpt.
BuildOntologyPrompt(excerpt, ontology, parsing, authority, jurisdiction) ==
    [system_message |-> parsing.system_message,
     user_prompt |-> [format |-> "ontology",
                      nodes |-> ontology.nodes,
                      json_schema |-> ontology.json_schema,
                      source_context |-> SourceContext(authority, jurisdiction),
                      excerpt |-> excerpt]]

\* _build_regulatory_prompt: the Provision/Requirement/Constraint prompt.
BuildRegulatoryPrompt(excerpt, parsing, authority, jurisdiction) ==
    [system_message |-> parsing.system_message,
     user_prompt |-> [format |-> "regulatory",
                      template |-> parsing.prompt_template,
                      authority |-> authority,
                      jurisdiction |-> jurisdiction,
                      excerpt |-> excerpt]]

\* build_prompt(excerpt, authority, jurisdiction, profile) once profile is
\* resolved: the ontology prompt when the profile's ontology has nodes and a
\* json_schema, else the regulatory prompt. It raises in no case.
BuildPrompt(excerpt, authority, jurisdiction, profile) ==
    IF profile.ontology.nodes > 0 /\ profile.ontology.json_schema # ""
    THEN BuildOntologyPrompt(excerpt, profile.ontology, profile.parsing,
                             authority, jurisdiction)
    ELSE BuildRegulatoryPrompt(excerpt, profile.parsing, authority, jurisdiction)

\* ------------------------------------------------------ the id extractor

\* A text is the sequence of its words. The words: a plain word, the two
\* keywords, and the numbers a citation is made of. "2020" is four digits;
\* "2020.1" contains four digits between word boundaries without being
\* four digits.
Words == {"the", "Section", "Chapter", "2020", "27", "2020.1", "1.2.3", "B.01.008"}
IntegerWords == {"2020", "27"}
DottedWords == {"2020.1", "1.2.3"}

\* \d+ at the start of a number: the digits before its first dot.
LeadingDigits(word) ==
    CASE word = "2020.1" -> "2020"
      [] word = "1.2.3" -> "1"
      [] OTHER -> word

\* group(1) of a match of the pattern that starts at word i, "" when the
\* pattern does not match there.
\*   cfia_bdot         \b([A-Z]\.\d{2}\.\d{3}(?:\.\d+)?)\b
\*   section_numbered  \bSection\s+(\d+(?:\.\d+)*)\b
\*   subsection        \b(\d+(?:\.\d+){2,})\b
\*   chapter           \bChapter\s+([A-Z]?\d+)\b
GroupAt(pattern_name, text, i) ==
    LET next == IF i < Len(text) THEN text[i + 1] ELSE ""
    IN  CASE pattern_name = "cfia_bdot" ->
                IF text[i] = "B.01.008" THEN text[i] ELSE ""
          [] pattern_name = "section_numbered" ->
                IF text[i] = "Section" /\ next \in IntegerWords \cup DottedWords
                THEN next ELSE ""
          [] pattern_name = "subsection" ->
                IF text[i] = "1.2.3" THEN text[i] ELSE ""
          [] pattern_name = "chapter" ->
                IF text[i] = "Chapter" /\ next \in IntegerWords \cup DottedWords
                THEN LeadingDigits(next) ELSE ""

\* pattern.search(text).group(1): the group of the leftmost match, "" when
\* there is none.
Search(pattern_name, text) ==
    LET at == { i \in 1..Len(text) : GroupAt(pattern_name, text, i) # "" }
    IN  IF at = {} THEN ""
        ELSE GroupAt(pattern_name, text, CHOOSE i \in at : \A j \in at : i <= j)

\* self.PATTERNS in the order of the dict.
PatternNames == <<"cfia_bdot", "section_numbered", "subsection", "chapter">>

\* self.AUTHORITY_PATTERNS.get(authority, [])
AuthorityPatterns(authority) ==
    CASE authority = "CFIA" -> <<"cfia_bdot", "section_numbered">>
      [] authority = "Department of Justice" -> <<"chapter", "section_numbered">>
      [] OTHER -> <<>>

\* _is_excluded with search in place of fullmatch: \b\d{4}\b is found in
\* the candidate.
IsExcludedSearch(candidate) == candidate \in {"2020", "2020.1"}

\* _is_excluded(candidate): an exclusion pattern matches the whole of it;
\* of the candidates, \b\d{4}\b full-matches "2020".
IsExcluded(candidate) == candidate = "2020"

\* provision_id for no id.
Unknown == <<"UNKNOWN">>

\* The confidences, in hundredths.
LocatorConfidence == 95
DirectConfidence == 80
PriorityConfidence == 85
FallbackConfidence == 70
LocatorThreshold == 80

ExtractionResult(provision_id, confidence, method, pattern_name) ==
    [provision_id |-> provision_id, confidence |-> confidence,
     method |-> method, pattern_name |-> pattern_name]

\* _looks_like_id(locator): two to thirty characters, a digit, and a letter
\* or a dot.
LooksLikeId(locator) ==
    /\ locator # <<>>
    /\ \E i \in 1..Len(locator) : locator[i] \notin {"the", "Section", "Chapter"}
    /\ \E i \in 1..Len(locator) : locator[i] \notin IntegerWords

\* extract_from_canonical_locator(locator)
ExtractFromCanonicalLocator(locator) ==
    LET found == { i \in 1..Len(PatternNames) :
                     /\ Search(PatternNames[i], locator) # ""
                     /\ ~IsExcluded(Search(PatternNames[i], locator)) }
        first == CHOOSE i \in found : \A j \in found : i <= j
    IN  IF locator = <<>>
        THEN ExtractionResult(Unknown, 0, "canonical_locator", "")
        ELSE IF found # {}
        THEN ExtractionResult(<<Search(PatternNames[first], locator)>>,
                              LocatorConfidence, "canonical_locator", PatternNames[first])
        ELSE IF LooksLikeId(locator)
        THEN ExtractionResult(locator, DirectConfidence, "canonical_locator", "direct")
        ELSE ExtractionResult(Unknown, 0, "canonical_locator", "")

\* _try_pattern(text, pattern_name, pattern, confidence)
TryPattern(text, pattern_name, confidence) ==
    IF Search(pattern_name, text) # "" /\ ~IsExcluded(Search(pattern_name, text))
    THEN ExtractionResult(<<Search(pattern_name, text)>>, confidence, "regex", pattern_name)
    ELSE ExtractionResult(Unknown, 0, "regex", pattern_name)

\* The patterns extract_from_text tries, in order: those of the authority,
\* then the others.
TextOrder(authority) ==
    LET priority == SelectSeq(AuthorityPatterns(authority),
                              LAMBDA n : \E i \in 1..Len(PatternNames) : PatternNames[i] = n)
    IN  priority \o SelectSeq(PatternNames,
                              LAMBDA n : \A i \in 1..Len(priority) : priority[i] # n)

\* extract_from_text(text, authority)
ExtractFromText(text, authority) ==
    LET order == TextOrder(authority)
        nPriority == Len(AuthorityPatterns(authority))
        try(i) == TryPattern(text, order[i],
                             IF i <= nPriority THEN PriorityConfidence
                             ELSE FallbackConfidence)
        found == { i \in 1..Len(order) : try(i).provision_id # Unknown }
    IN  IF text = <<>> \/ found = {}
        THEN ExtractionResult(Unknown, 0, "regex", "")
        ELSE try(CHOOSE i \in found : \A j \in found : i <= j)

\* extract with the text tried before the locator.
ExtractTextFirst(text, canonical_locator, authority) ==
    IF ExtractFromText(text, authority).provision_id # Unknown
    THEN ExtractFromText(text, authority)
    ELSE IF canonical_locator # <<>>
            /\ ExtractFromCanonicalLocator(canonical_locator).provision_id # Unknown
    THEN ExtractFromCanonicalLocator(canonical_locator)
    ELSE ExtractionResult(Unknown, 0, "none", "")

\* extract(text, canonical_locator, authority)
Extract(text, canonical_locator, authority) ==
    IF /\ canonical_locator # <<>>
       /\ ExtractFromCanonicalLocator(canonical_locator).provision_id # Unknown
       /\ ExtractFromCanonicalLocator(canonical_locator).confidence >= LocatorThreshold
    THEN ExtractFromCanonicalLocator(canonical_locator)
    ELSE IF ExtractFromText(text, authority).provision_id # Unknown
    THEN ExtractFromText(text, authority)
    ELSE ExtractionResult(Unknown, 0, "none", "")

\* The calls of _is_excluded one call of extract makes, in order: the
\* candidate and the answer.
Tried(text, canonical_locator, authority) ==
    LET asked(names, source) ==
            [ i \in 1..Len(names) |->
                [candidate |-> Search(names[i], source),
                 rejected |-> IsExcluded(Search(names[i], source))] ]
        upTo(calls) ==
            LET kept == { i \in 1..Len(calls) :
                            calls[i].candidate # "" /\ ~calls[i].rejected }
                last == IF kept = {} THEN Len(calls)
                        ELSE CHOOSE i \in kept : \A j \in kept : i <= j
            IN  SelectSeq(SubSeq(calls, 1, last), LAMBDA c : c.candidate # "")
        ofLocator == upTo(asked(PatternNames, canonical_locator))
        ofText == upTo(asked(TextOrder(authority), text))
    IN  IF Extract(text, canonical_locator, authority).method = "canonical_locator"
        THEN ofLocator ELSE ofLocator \o ofText

\* ------------------------------------------------------------- the loaders

\* _use_ontology_mode of BatchProcessor.__init__.
UseOntologyMode(ontology) ==
    ontology.given /\ ontology.nodes > 0 /\ ontology.json_schema # ""

\* fragment_lookup.get(fragment_id, {}).get(key, 'UNKNOWN')
MetaOf(lookup, fragment_id, key) ==
    LET hits == { i \in 1..Len(lookup) : lookup[i].fragment_id = fragment_id }
    IN  IF hits = {} THEN "UNKNOWN"
        ELSE lookup[CHOOSE i \in hits : \A j \in hits : j <= i][key]

\* entity.get('_label', self.ontology.root_node or 'Entity')
EntityLabel(entity, ontology) ==
    IF entity._label # "" THEN entity._label
    ELSE IF ontology.root_node # "" THEN ontology.root_node ELSE "Entity"

\* EntityId with idx counted from 1.
EntityIdFromOne(label, fragment_id, i) == <<label, IdPrefix(fragment_id), i + 1>>

\* entity_id = f"{label}_{fragment_id[:8]}_{idx}", idx counted from 0.
EntityId(label, fragment_id, i) == <<label, IdPrefix(fragment_id), i>>

\* The characters of an entity_id.
IdString(id) == <<id[1], "_">> \o id[2] \o <<"_", ToString(id[3])>>

\* A string value between quotes in a statement: the value and the text
\* interpolated for it.
Prop(key, raw, text) == [key |-> key, raw |-> raw, text |-> text]

\* entity_ids, the (entity_id, label) pairs of the entities in order.
EntityIds(fragment_id, parsed, ontology) ==
    [ i \in 1..Len(parsed.entities) |->
        LET label == EntityLabel(parsed.entities[i], ontology)
        IN  [id |-> EntityId(label, fragment_id, i - 1), label |-> label] ]

\* entity_ids[index] of Python, as a position counted from 1: a negative
\* index counts from the end.
PyIndex(index, n) == IF index >= 0 THEN index + 1 ELSE n + index + 1

\* The test both generic loaders make before they index entity_ids.
RelationshipAccepted(rel, n) == rel._from_index < n /\ rel._to_index < n

\* entity_ids[from_idx] or entity_ids[to_idx] raises IndexError.
RelationshipRaises(rel, n) ==
    /\ RelationshipAccepted(rel, n)
    /\ (rel._from_index < -n \/ rel._to_index < -n)

\* The loop over relationships: one MATCH ... CREATE per accepted
\* relationship, up to the first one that raises.
RECURSIVE EdgeStatements(_, _)
EdgeStatements(relationships, entity_ids) ==
    IF relationships = <<>> THEN <<>>
    ELSE LET rel == Head(relationships)
             n == Len(entity_ids)
             a == entity_ids[PyIndex(rel._from_index, n)]
             b == entity_ids[PyIndex(rel._to_index, n)]
         IN  IF ~RelationshipAccepted(rel, n)
             THEN EdgeStatements(Tail(relationships), entity_ids)
             ELSE IF RelationshipRaises(rel, n) THEN <<>>
             ELSE << [op |-> "edge", label |-> "RELATES_TO",
                      from |-> a.id, from_label |-> a.label,
                      to |-> b.id, to_label |-> b.label] >>
                  \o EdgeStatements(Tail(relationships), entity_ids)

\* The except clause of a generic loader is entered from the loop over
\* relationships.
GenericRaises(parsed) ==
    \E k \in 1..Len(parsed.relationships) :
        RelationshipRaises(parsed.relationships[k], Len(parsed.entities))

\* The statements BatchProcessor.load_to_graph_generic executes for one
\* parsed result, in order: one CREATE per entity, then the edges.
GenericStatements(fragment_id, doc_id, parsed, ontology) ==
    LET entity_ids == EntityIds(fragment_id, parsed, ontology)
    IN  [ i \in 1..Len(parsed.entities) |->
            [op |-> "vertex", label |-> entity_ids[i].label,
             id |-> entity_ids[i].id,
             fragment_id |-> fragment_id, doc_id |-> doc_id,
             name |-> parsed.entities[i].name] ]
        \o EdgeStatements(parsed.relationships, entity_ids)

\* The string values between quotes in the query text of a statement of
\* BatchProcessor.load_to_graph_generic: id and the entity's properties go
\* through _escape_cypher, fragment_id and doc_id are interpolated as
\* they are.
QueryValues(st) ==
    IF st.op = "vertex"
    THEN << Prop("id", IdString(st.id), EscapeCypher(IdString(st.id))),
            Prop("fragment_id", st.fragment_id, st.fragment_id),
            Prop("doc_id", <<st.doc_id>>, <<st.doc_id>>),
            Prop("name", st.name, EscapeCypher(Truncate(st.name))) >>
    ELSE << Prop("id", IdString(st.from), EscapeCypher(IdString(st.from))),
            Prop("id", IdString(st.to), EscapeCypher(IdString(st.to))) >>

\* The statements KGParser.load_to_graph_generic executes for one result:
\* the same vertices and edges in the same order, through _create_vertex
\* and _create_edge.
SyncGenericStatements(fragment_id, doc_id, parsed, ontology) ==
    GenericStatements(fragment_id, doc_id, parsed, ontology)

\* The string values in the query text of a statement of the sync loader:
\* _create_vertex escapes every string property, _create_edge the two ids.
SyncQueryValues(st) ==
    IF st.op = "vertex"
    THEN << Prop("id", IdString(st.id), SyncEscapeCypher(IdString(st.id))),
            Prop("fragment_id", st.fragment_id, SyncEscapeCypher(st.fragment_id)),
            Prop("doc_id", <<st.doc_id>>, SyncEscapeCypher(<<st.doc_id>>)),
            Prop("name", st.name, SyncEscapeCypher(Truncate(st.name))) >>
    ELSE << Prop("id", IdString(st.from), SyncEscapeCypher(IdString(st.from))),
            Prop("id", IdString(st.to), SyncEscapeCypher(IdString(st.to))) >>

\* prov_id = f"{authority}_{provision_id}_{fragment_id[:8]}" with the
\* provision_id defaulted to 'UNKNOWN'.
ProvisionId(authority, fragment_id) == <<authority, "UNKNOWN", IdPrefix(fragment_id)>>

\* The statements load_to_graph executes: the Provision, then for every
\* requirement its vertex and its DERIVED_FROM link.
DomainStatements(fragment_id, doc_id, authority, parsed) ==
    LET prov == ProvisionId(authority, fragment_id)
        req(r) == <<prov, "req", r - 1>>
    IN  << [op |-> "vertex", label |-> "Provision", id |-> prov,
            fragment_id |-> fragment_id, doc_id |-> doc_id] >>
        \o
        [ n \in 1..(2 * parsed.requirements) |->
            IF n % 2 = 1
            THEN [op |-> "vertex", label |-> "Requirement", id |-> req((n + 1) \div 2)]
            ELSE [op |-> "edge", label |-> "DERIVED_FROM",
                  from |-> req(n \div 2), to |-> prov] ]

\* Execute as an upsert: a vertex whose id the store already holds is not
\* created again.
RECURSIVE ExecuteUpsert(_, _)
ExecuteUpsert(store, statements) ==
    IF statements = <<>> THEN store
    ELSE LET st == Head(statements)
             held == \E i \in 1..Len(store) :
                        /\ store[i].op = "vertex"
                        /\ st.op = "vertex"
                        /\ store[i].id = st.id
         IN  ExecuteUpsert(IF held THEN store ELSE Append(store, st), Tail(statements))

\* cursor.execute of each statement: the store appends, it never looks at
\* what it already holds.
\* Execute that puts the statements ahead of those already executed.
ExecuteAhead(store, statements) == statements \o store

\* The statements are executed in order, after those already executed.
Execute(store, statements) == store \o statements

\* ------------------------------------------------------- process_results

\* Reconcilable taking every terminal status for a finished batch.
ReconcilableAnyTerminal(status) == status \in TerminalStatuses

\* download_results goes on only for this status.
Reconcilable(status) == status = "completed"

\* ResolveMetadata without the fallback to the most recent side-car.
ResolveMetadataLinkedOnly(batch_id) ==
    IF info[batch_id] # "" /\ sidecar[info[batch_id]] # <<>>
    THEN info[batch_id] ELSE ""

\* ResolveMetadata that always takes the most recent side-car.
ResolveMetadataMostRecent(batch_id) ==
    IF mtimeOrder = <<>> THEN "" ELSE Head(mtimeOrder)

\* The side-car process_results loads for batch_id: the one the info record
\* links to when both exist, else the most recently modified one, else none.
ResolveMetadata(batch_id) ==
    LET linked == IF info[batch_id] # "" /\ sidecar[info[batch_id]] # <<>>
                  THEN info[batch_id] ELSE ""
    IN  IF linked # "" THEN linked
        ELSE IF mtimeOrder = <<>> THEN "" ELSE Head(mtimeOrder)

\* ParsedDisposition handing every parsed payload to the loader.
ParsedDispositionAlwaysLoad(payload, ontologyMode) == "load"

\* A parsed payload: skipped when the array the mode reads is missing or
\* empty, else handed to the loader of the mode.
ParsedDisposition(payload, ontologyMode) ==
    IF ontologyMode
    THEN IF payload.entities = <<>> THEN "skipped_empty" ELSE "load"
    ELSE IF payload.requirements = 0 THEN "skipped_empty" ELSE "load"

\* ContentDisposition that skips a malformed payload instead of failing it.
ContentDispositionSkipMalformed(payload, ontologyMode) ==
    IF payload.kind = "malformed" THEN "skipped_empty"
    ELSE IF payload.kind = "nonobject" THEN "raise"
    ELSE ParsedDisposition(payload, ontologyMode)

\* json.loads(content): JSONDecodeError is caught and counted; a value that
\* is not an object has no .get, and that error leaves process_results.
ContentDisposition(payload, ontologyMode) ==
    IF payload.kind = "malformed" THEN "failed_json"
    ELSE IF payload.kind = "nonobject" THEN "raise"
    ELSE ParsedDisposition(payload, ontologyMode)

\* Disposition without the test of the error field: the line falls through
\* to the branch for a response without choices.
DispositionNoErrorTest(payload, ontologyMode) ==
    IF payload.kind \in {"error", "nochoices"} THEN "skipped_nochoices"
    ELSE ContentDisposition(payload, ontologyMode)

\* What the loop body does with one result line.
Disposition(payload, ontologyMode) ==
    IF payload.kind = "error" THEN "failed_error"
    ELSE IF payload.kind = "nochoices" THEN "skipped_nochoices"
    ELSE ContentDisposition(payload, ontologyMode)

\* The counter a disposition adds one to.
Counter(d) ==
    IF d \in {"failed_error", "failed_json", "failed_load"} THEN "failed"
    ELSE IF d \in {"skipped_nochoices", "skipped_empty"} THEN "skipped"
    ELSE "success"

ZeroStats == [success |-> 0, failed |-> 0, skipped |-> 0]

\* ------------------------------------------------------------------- Init

InitCommon ==
    /\ manifest = [n \in OutputNames |-> <<>>]
    /\ sidecar = [n \in OutputNames |-> <<>>]
    /\ mtimeOrder = <<>>
    /\ info = [b \in BatchIds |-> ""]
    /\ resultsFile = {}
    /\ bstatus = [b \in BatchIds |-> "none"]
    /\ binput = [b \in BatchIds |-> <<>>]
    /\ boutput = [b \in BatchIds |-> <<>>]
    /\ graph = <<>>
    /\ pc = "idle"
    /\ p_batch = 0
    /\ p_ont = NoOntology
    /\ p_meta = ""
    /\ p_lookup = <<>>
    /\ idx = 1
    /\ stats = ZeroStats
    /\ handled = <<>>
    /\ p_issued = <<>>
    /\ outcome = "none"
    /\ db_conn = "none"
    /\ nPasses = 0
    /\ nDbFailures = 0
    /\ passesDone = [b \in BatchIds |-> 0]
    /\ m_pc = "idle"
    /\ m_batch = 0
    /\ m_watch = FALSE
    /\ m_fetches = 0
    /\ m_last = "none"
    /\ r_last = <<>>
    /\ r_again = FALSE
    /\ active_profile = NoProfile
    /\ last_op = [op |-> "none"]
    /\ last_set = NoProfile
    /\ bp_prev = <<>>
    /\ bp_last = <<>>
    /\ l_pc = "first"
    /\ l_calls = <<>>
    /\ e_routine = "none"
    /\ e_text = <<>>
    /\ dm_merged = <<>>
    /\ dm_again = <<>>
    /\ lp_last = <<>>
    /\ x_result = <<>>
    /\ x_tried = <<>>
    /\ visited_urls = {}
    /\ pages_crawled = 0
    /\ queue = <<>>
    /\ c_pc = "new"
    /\ crawled = <<>>

\* No call of _deep_merge on its own is under way.
MergeIdle == dm_base = <<>> /\ dm_override = <<>>

\* No library routine is exercised on its own.
\* No call of the id extractor on its own is under way.
ExtractIdle == x_text = <<>> /\ x_locator = <<>> /\ x_authority = "UNKNOWN"

\* No crawler is constructed.
CrawlIdle == max_pages = 0 /\ max_depth = 0

ToolsIdle == MergeIdle /\ domains = BuiltinDomains /\ ExtractIdle /\ CrawlIdle

Init ==
    /\ InitCommon
    /\ l_loader = "batch"
    /\ e_value = <<>>
    /\ ToolsIdle

\* ------------------------------------------------ prepare, submit, the files

\* WriteFile that appends to the file it finds.
WriteFileAppend(old, lines) == old \o lines

\* open(path, 'w') and the writes: the file holds the lines written.
WriteFile(old, lines) == lines

\* The request lines prepare_batch_file writes: per fragment its custom_id
\* and the messages of the body, made by create_prompt from the active
\* profile.
RequestLines(fragments, profile) ==
    [ i \in 1..Len(fragments) |->
        [custom_id |-> fragments[i].fragment_id,
         messages |-> BuildPrompt(fragments[i].excerpt, fragments[i].authority,
                                  fragments[i].jurisdiction, profile)] ]

\* metadata['fragments'] of the side-car.
MetadataFragments(fragments) ==
    [ i \in 1..Len(fragments) |->
        [fragment_id |-> fragments[i].fragment_id,
         doc_id |-> fragments[i].doc_id,
         jurisdiction |-> fragments[i].jurisdiction,
         authority |-> fragments[i].authority] ]

\* The prepare command: --domain sets the active profile of the process,
\* then BatchPreparation.run. Nothing is written when no fragment is
\* fetched; otherwise the manifest and its side-car are written, replacing
\* any earlier ones of the same name.
Prepare(name, offset, limit, domain) ==
    LET fragments == FetchFragments(offset, limit)
        profile == GetProfile(IF domain # "" THEN LoadProfile(domain) ELSE NoProfile)
    IN  /\ pc = "idle"
        /\ fragments # <<>>
        /\ manifest' = [manifest EXCEPT ![name] =
                            WriteFile(@, RequestLines(fragments, profile))]
        /\ sidecar' = [sidecar EXCEPT ![name] =
                            WriteFile(@, MetadataFragments(fragments))]
        /\ mtimeOrder' = <<name>> \o Remove(mtimeOrder, name)
        /\ UNCHANGED <<libVars, info, resultsFile, providerVars, graph, procVars,
                       countVars, monVars>>

\* BatchSubmission.submit_batch: uploads the manifest as it is now, creates
\* the batch and writes the info record that names the manifest.
Submit(name) ==
    /\ pc = "idle"
    /\ manifest[name] # <<>>
    /\ \E b \in BatchIds :
        /\ bstatus[b] = "none"
        /\ \A c \in BatchIds : c < b => bstatus[c] # "none"
        /\ bstatus' = [bstatus EXCEPT ![b] = "validating"]
        /\ binput' = [binput EXCEPT ![b] = manifest[name]]
        /\ info' = [info EXCEPT ![b] = name]
    /\ UNCHANGED <<runVars, libVars, manifest, sidecar, mtimeOrder, resultsFile, boutput, graph,
                   procVars, countVars, monVars>>

\* A side-car is removed from batch_data between two commands.
RemoveSidecar(name) ==
    /\ pc = "idle"
    /\ sidecar[name] # <<>>
    /\ sidecar' = [sidecar EXCEPT ![name] = <<>>]
    /\ mtimeOrder' = Remove(mtimeOrder, name)
    /\ UNCHANGED <<runVars, libVars, manifest, info, resultsFile, providerVars, graph, procVars,
                   countVars, monVars>>

\* An info record is removed from batch_data between two commands.
RemoveInfo(batch_id) ==
    /\ pc = "idle"
    /\ info[batch_id] # ""
    /\ info' = [info EXCEPT ![batch_id] = ""]
    /\ UNCHANGED <<runVars, libVars, manifest, sidecar, mtimeOrder, resultsFile, providerVars, graph,
                   procVars, countVars, monVars>>

\* --------------------------------------------------------- process_results

\* process_results up to the loop: a new BatchProcessor, download_results,
\* the metadata lookup.
ProcessStart(batch_id, ontology, statuses, payloads) ==
    /\ pc = "idle"
    /\ nPasses < MaxPasses
    /\ bstatus[batch_id] # "none"
    /\ nPasses' = nPasses + 1
    /\ p_batch' = batch_id
    /\ p_ont' = ontology
    /\ \E status \in statuses :
        /\ Retrieve(batch_id, status, payloads)
        /\ IF ~Reconcilable(status)
           THEN /\ outcome' = "not_completed"
                /\ pc' = "ended"
                /\ UNCHANGED <<resultsFile, p_meta, p_lookup>>
           ELSE /\ resultsFile' = resultsFile \cup {batch_id}
                /\ p_meta' = ResolveMetadata(batch_id)
                /\ IF p_meta' = ""
                   THEN /\ outcome' = "no_metadata"
                        /\ pc' = "ended"
                        /\ UNCHANGED p_lookup
                   ELSE /\ p_lookup' = sidecar[p_meta']
                        /\ pc' = "loop"
                        /\ UNCHANGED outcome
    /\ UNCHANGED <<runVars, libVars, manifest, sidecar, mtimeOrder, info, graph, idx, stats, handled,
                   p_issued, db_conn, nDbFailures, passesDone, monVars>>

\* One turn of the loop over the results file. A statement the store rejects
\* ends the load of that fragment; the statements before it stay executed.
ProcessLine(maxFailures) ==
    /\ pc = "loop"
    /\ idx <= Len(boutput[p_batch])
    /\ LET line == boutput[p_batch][idx]
           fragment_id == line.custom_id
           mode == UseOntologyMode(p_ont)
           d == Disposition(line.payload, mode)
           doc_id == MetaOf(p_lookup, fragment_id, "doc_id")
           authority == MetaOf(p_lookup, fragment_id, "authority")
           statements ==
               IF mode
               THEN GenericStatements(fragment_id, doc_id, line.payload, p_ont)
               ELSE DomainStatements(fragment_id, doc_id, authority, line.payload)
       IN  \/ /\ d = "raise"
              /\ outcome' = "exception"
              /\ pc' = "ended"
              /\ UNCHANGED <<graph, idx, stats, handled, p_issued, db_conn, nDbFailures>>
           \/ /\ d = "load"
              /\ db_conn' = "open"
              /\ \E done \in 0..Len(statements) :
                    LET rejected == done < Len(statements)
                        r == IF rejected \/ (mode /\ GenericRaises(line.payload))
                             THEN "failed_load" ELSE "success"
                    IN  /\ rejected => nDbFailures < maxFailures
                        /\ nDbFailures' = IF rejected THEN nDbFailures + 1
                                          ELSE nDbFailures
                        /\ graph' = Execute(graph, SubSeq(statements, 1, done))
                        /\ stats' = [stats EXCEPT ![Counter(r)] = @ + 1]
                        /\ handled' = Append(handled, r)
                        /\ p_issued' = Append(p_issued, done)
              /\ idx' = idx + 1
              /\ UNCHANGED <<pc, outcome>>
           \/ /\ d \notin {"raise", "load"}
              /\ stats' = [stats EXCEPT ![Counter(d)] = @ + 1]
              /\ handled' = Append(handled, d)
              /\ p_issued' = Append(p_issued, 0)
              /\ idx' = idx + 1
              /\ UNCHANGED <<graph, pc, outcome, db_conn, nDbFailures>>
    /\ UNCHANGED <<runVars, libVars, fsVars, providerVars, p_batch, p_ont, p_meta, p_lookup,
                   nPasses, passesDone, monVars>>

\* The end of the file: the summary is printed and the connection closed.
ProcessFinish ==
    /\ pc = "loop"
    /\ idx > Len(boutput[p_batch])
    /\ outcome' = "summary"
    /\ db_conn' = IF db_conn = "open" THEN "closed" ELSE db_conn
    /\ pc' = "ended"
    /\ passesDone' = IF UseOntologyMode(p_ont)
                     THEN [passesDone EXCEPT ![p_batch] = @ + 1] ELSE passesDone
    /\ UNCHANGED <<runVars, libVars, fsVars, providerVars, graph, p_batch, p_ont, p_meta, p_lookup,
                   idx, stats, handled, p_issued, nPasses, nDbFailures, monVars>>

\* The command has returned; the next one starts from a new process.
ProcessExit ==
    /\ pc = "ended"
    /\ pc' = "idle"
    /\ p_batch' = 0
    /\ p_ont' = NoOntology
    /\ p_meta' = ""
    /\ p_lookup' = <<>>
    /\ idx' = 1
    /\ stats' = ZeroStats
    /\ handled' = <<>>
    /\ p_issued' = <<>>
    /\ outcome' = "none"
    /\ db_conn' = "none"
    /\ UNCHANGED <<runVars, libVars, fsVars, providerVars, graph, countVars, monVars>>

\* ------------------------------------------------------------ check_status

\* PollAgain that does not know the statuses expired and cancelled.
PollAgainUnlessDone(status, watch) ==
    /\ status \notin {"completed", "failed"}
    /\ watch

\* After a fetch, check_status sleeps and fetches again, or returns.
PollAgain(status, watch) ==
    /\ status \notin {"completed", "failed", "expired", "cancelled"}
    /\ watch

MonitorStart(batch_id, watch) ==
    /\ m_pc = "idle"
    /\ bstatus[batch_id] # "none"
    /\ m_pc' = "fetch"
    /\ m_batch' = batch_id
    /\ m_watch' = watch
    /\ m_fetches' = 0
    /\ m_last' = "none"
    /\ UNCHANGED <<runVars, libVars, fsVars, providerVars, graph, procVars, countVars>>

\* One turn of the while loop: the fetch and the branch on its status.
MonitorFetch(payloads) ==
    /\ m_pc = "fetch"
    /\ m_fetches < MaxFetches
    /\ \E status \in Statuses :
        /\ Retrieve(m_batch, status, payloads)
        /\ m_last' = status
        /\ m_pc' = IF PollAgain(status, m_watch) THEN "sleep" ELSE "returned"
    /\ m_fetches' = m_fetches + 1
    /\ UNCHANGED <<runVars, libVars, fsVars, graph, procVars, countVars, m_batch, m_watch>>

\* time.sleep(60) is over.
MonitorWake ==
    /\ m_pc = "sleep"
    /\ m_pc' = "fetch"
    /\ UNCHANGED <<runVars, libVars, fsVars, providerVars, graph, procVars, countVars,
                   m_batch, m_watch, m_fetches, m_last>>

MonitorExit ==
    /\ m_pc = "returned"
    /\ m_pc' = "idle"
    /\ m_batch' = 0
    /\ m_watch' = FALSE
    /\ m_fetches' = 0
    /\ m_last' = "none"
    /\ UNCHANGED <<runVars, libVars, fsVars, providerVars, graph, procVars, countVars>>

\* ------------------------------------------------------ a prepare re-run

\* The prepare command, with the note of whether it repeats the command
\* before it.
PrepareCommand(name, offset, limit, domain) ==
    /\ Prepare(name, offset, limit, domain)
    /\ r_last' = <<name, offset, limit, domain>>
    /\ r_again' = (r_last = <<name, offset, limit, domain>>)

\* ------------------------------------------- the domain module in a process

\* The authority and jurisdiction of a fragment, either of which may be ''.
Sources == {<<"", "">>, <<"CFIA", "">>, <<"", "CA">>, <<"CFIA", "CA">>}

\* get_profile(): when nothing is cached and load_profile raises, the
\* assignment to _active_profile is not reached.
GetProfileCall ==
    LET loaded == LoadProfileIn(domains, DefaultProfileName)
    IN  /\ IF active_profile = NoProfile /\ loaded.raised # ""
           THEN /\ UNCHANGED active_profile
                /\ last_op' = [op |-> "get_profile raised", raised |-> loaded.raised,
                               available |-> loaded.available]
           ELSE /\ active_profile' = GetProfile(active_profile)
                /\ last_op' = [op |-> "get_profile",
                               returned |-> GetProfile(active_profile),
                               failed_before |-> (last_op.op = "get_profile raised")]
        /\ UNCHANGED <<batchVars, graph, last_set, bp_prev, bp_last, loadVars, escVars,
                       toolVars>>

\* load_profile(name)
LoadProfileCall(name) ==
    LET loaded == LoadProfileIn(domains, name)
    IN  /\ lp_last' = << [name |-> name, dir |-> domains, raised |-> loaded.raised,
                          available |-> loaded.available,
                          profile |-> loaded.profile] >>
        /\ UNCHANGED <<batchVars, graph, profVars, loadVars, escVars, mergeVars, domains,
                       extractVars, crawlVars>>

SetProfileCall(profile) ==
    /\ active_profile' = profile
    /\ last_set' = profile
    /\ last_op' = [op |-> "set_profile"]
    /\ UNCHANGED <<batchVars, graph, bp_prev, bp_last, loadVars, escVars, toolVars>>

ResetProfileCall ==
    /\ active_profile' = NoProfile
    /\ last_set' = NoProfile
    /\ last_op' = [op |-> "reset_profile"]
    /\ UNCHANGED <<batchVars, graph, bp_prev, bp_last, loadVars, escVars, toolVars>>

\* build_prompt(excerpt, authority, jurisdiction, profile): a profile left
\* out is taken from get_profile(), which caches what it loads.
BuildPromptCall(excerpt, authority, jurisdiction, profile) ==
    LET resolved == IF profile = NoProfile THEN GetProfile(active_profile) ELSE profile
    IN  /\ active_profile' = IF profile = NoProfile THEN resolved ELSE active_profile
        /\ bp_prev' = bp_last
        /\ bp_last' = << [args |-> <<excerpt, authority, jurisdiction, profile>>,
                          ontology |-> resolved.ontology,
                          raised |-> FALSE,
                          result |-> BuildPrompt(excerpt, authority, jurisdiction, resolved)] >>
        /\ last_op' = [op |-> "build_prompt"]
        /\ UNCHANGED <<batchVars, graph, last_set, loadVars, escVars, toolVars>>

\* main of parse.py in a new process, up to the prompt of one fragment:
\* --domain sets the active profile; the ontology of the KGParser is the
\* --ontology file, else the profile's ontology when it has nodes;
\* parse_generic and parse_with_llm both call build_prompt with the excerpt,
\* the authority and the jurisdiction only.
KGParserMain(domain, ontology, excerpt, authority, jurisdiction) ==
    LET profile == GetProfile(IF domain # "" THEN LoadProfile(domain) ELSE NoProfile)
        chosen == IF ontology.given THEN ontology
                  ELSE IF profile.ontology.nodes > 0 THEN profile.ontology
                  ELSE [given |-> FALSE, nodes |-> 0, json_schema |-> "", root_node |-> ""]
    IN  /\ active_profile = NoProfile
        /\ active_profile' = profile
        /\ last_set' = IF domain # "" THEN profile ELSE last_set
        /\ last_op' = [op |-> "parse",
                       explicit |-> ontology,
                       ontology_mode |-> (chosen.given /\ chosen.nodes > 0
                                             /\ chosen.json_schema # ""),
                       sent |-> BuildPrompt(excerpt, authority, jurisdiction, profile)]
        /\ UNCHANGED <<batchVars, graph, bp_prev, bp_last, loadVars, escVars, toolVars>>

\* ------------------------------------------------- _deep_merge on its own

\* The keys and the values that are not mappings.
MergeKeys == {"parsing", "requirement_types"}
MergeLeaves == {Scalar("x"), ListValue(<<"x">>), ListValue(<<"y">>)}

\* The mappings handed to _deep_merge: up to two levels of keys.
FlatDicts == DictsOver(MergeKeys, MergeLeaves)
MergeDicts ==
    DictsOver(MergeKeys, MergeLeaves \cup { Mapping(items) : items \in FlatDicts })

\* merged = _deep_merge(base, override)
DeepMergeCall ==
    /\ dm_merged = <<>>
    /\ dm_merged' = <<DeepMerge(dm_base, dm_override)>>
    /\ UNCHANGED <<batchVars, graph, profVars, loadVars, escVars,
                   dm_base, dm_override, dm_again, dirVars, extractVars, crawlVars>>

\* _deep_merge(merged, {})
DeepMergeAgain ==
    /\ dm_merged # <<>>
    /\ dm_again = <<>>
    /\ dm_again' = <<DeepMerge(dm_merged[1], EmptyDict)>>
    /\ UNCHANGED <<batchVars, graph, profVars, loadVars, escVars,
                   dm_base, dm_override, dm_merged, dirVars, extractVars, crawlVars>>

\* ------------------------------------------------- a chain of profiles

\* food-safety-ca extends food-safety, which extends default.
ChainNames == {"food-safety-ca", "food-safety", "default"}
ExtendsOf(name) ==
    CASE name = "food-safety-ca" -> "food-safety"
      [] name = "food-safety" -> "default"
      [] OTHER -> ""

\* The keys of `parsing` a profile of the chain may define; the value a
\* profile gives a key is the profile's own name.
ProfileKeys == {"system_message", "prompt_template"}

\* The file of a profile of the chain that defines these keys.
RawProfile(name, keys) ==
    [ key \in {"name"} \cup (IF ExtendsOf(name) # "" THEN {"extends"} ELSE {})
               \cup (IF keys # {} THEN {"parsing"} ELSE {}) |->
        CASE key = "name" -> Scalar(name)
          [] key = "extends" -> Scalar(ExtendsOf(name))
          [] key = "parsing" -> Mapping([ k \in keys |-> Scalar(name) ]) ]

\* The domains directories: any of the three files present, each defining
\* any of the keys.
ChainDirectories ==
    { [ name \in files |-> RawProfile(name, keys[name]) ] :
          files \in SUBSET ChainNames, keys \in [ChainNames -> SUBSET ProfileKeys] }

\* A profile file is added to the domains directory.
InstallProfile(name, keys) ==
    /\ name \notin DOMAIN domains
    /\ domains' = [ n \in DOMAIN domains \cup {name} |->
                      IF n = name THEN RawProfile(name, keys) ELSE domains[n] ]
    /\ UNCHANGED <<batchVars, graph, profVars, loadVars, escVars, mergeVars, lp_last,
                   extractVars, crawlVars>>

\* --------------------------------------------------- the id extractor alone

\* The texts: up to MaxTokens words.
Texts == UNION { [1..n -> Words] : n \in 0..MaxTokens }

\* The canonical locators: none, one word, or a keyword and a number.
Locators ==
    {<<>>} \cup { <<w>> : w \in Words }
           \cup { <<k, n>> : k \in {"Section", "Chapter"},
                             n \in IntegerWords \cup DottedWords }

Authorities == {"UNKNOWN", "CFIA", "Department of Justice"}

\* extract(text, canonical_locator, authority)
ExtractCall ==
    /\ x_result = <<>>
    /\ x_result' = <<Extract(x_text, x_locator, x_authority)>>
    /\ x_tried' = Tried(x_text, x_locator, x_authority)
    /\ UNCHANGED <<batchVars, graph, profVars, loadVars, escVars, mergeVars, dirVars,
                   x_text, x_locator, x_authority, crawlVars>>

\* ------------------------------------------------------- the crawler alone

Url(netloc, path) == [netloc |-> netloc, path |-> path]

\* The URL the crawler is constructed with, and the netloc of it.
start_url == Url("site", "/")
base_domain == start_url.netloc

\* An href that is the empty string.
EmptyHref == Url("", "")

\* The site: for each page, the hrefs of result.links['internal'] as the
\* fetch reports them: with repeats, links back, a link to the page itself,
\* an empty href and an href of another host.
InternalLinks(url) ==
    CASE url.path = "/"  -> <<Url("site", "/a"), Url("site", "/b"), Url("site", "/a"),
                              Url("site", "/"), Url("docs.site", "/"), EmptyHref>>
      [] url.path = "/a" -> <<Url("site", "/b"), Url("site", "/c"), Url("site", "/")>>
      [] url.path = "/b" -> <<Url("site", "/c"), Url("site", "/a")>>
      [] url.path = "/c" -> <<Url("site", "/d"), Url("site", "/c")>>
      [] url.path = "/d" -> <<Url("site", "/e")>>
      [] OTHER           -> <<Url("site", "/")>>

\* What crawler.arun does for a page: a result that succeeded, a result
\* that did not, or an exception.
FetchResults(url) ==
    { [raised |-> FALSE, success |-> TRUE, internal |-> InternalLinks(url)],
      [raised |-> FALSE, success |-> FALSE, internal |-> <<>>],
      [raised |-> TRUE, success |-> FALSE, internal |-> <<>>] }

\* is_same_domain(url)
IsSameDomain(url) == url.netloc = base_domain

\* extract_links(result)
ExtractLinks(result) ==
    LET Kept(href) == href # EmptyHref /\ IsSameDomain(href)
    IN  SelectSeq(result.internal, Kept)

\* crawl_page without its test of visited_urls.
CrawlPageRevisits(visited, pages, url, depth, result) ==
    IF pages >= max_pages \/ depth > max_depth
    THEN [visited_urls |-> visited, pages_crawled |-> pages, fetched |-> FALSE,
          links |-> <<>>]
    ELSE [visited_urls |-> visited \cup {url}, pages_crawled |-> pages + 1,
          fetched |-> TRUE,
          links |-> IF ~result.raised /\ result.success
                    THEN ExtractLinks(result) ELSE <<>>]

\* crawl_page(crawler, url, depth), the fetch doing `result`: the object's
\* fields afterwards, whether it went on to fetch, and the links returned.
CrawlPage(visited, pages, url, depth, result) ==
    IF url \in visited \/ pages >= max_pages \/ depth > max_depth
    THEN [visited_urls |-> visited, pages_crawled |-> pages, fetched |-> FALSE,
          links |-> <<>>]
    ELSE [visited_urls |-> visited \cup {url}, pages_crawled |-> pages + 1,
          fetched |-> TRUE,
          links |-> IF ~result.raised /\ result.success
                    THEN ExtractLinks(result) ELSE <<>>]

\* The condition of the loop of crawl.
CrawlContinues == queue # <<>> /\ pages_crawled < max_pages

\* crawl() up to its loop: the queue holds the start URL at depth 0.
CrawlStart ==
    /\ c_pc = "new"
    /\ queue' = << <<start_url, 0>> >>
    /\ c_pc' = "loop"
    /\ UNCHANGED <<batchVars, graph, profVars, loadVars, escVars, mergeVars, dirVars,
                   extractVars, max_pages, max_depth, visited_urls, pages_crawled, crawled>>

\* One turn of the loop: the head of the queue is popped and handed to
\* crawl_page, and within the depth limit the links it returned that are
\* not visited are appended one level deeper.
CrawlTurn ==
    /\ c_pc = "loop"
    /\ CrawlContinues
    /\ \E result \in FetchResults(Head(queue)[1]) :
          LET url == Head(queue)[1]
              depth == Head(queue)[2]
              page == CrawlPage(visited_urls, pages_crawled, url, depth, result)
              Unvisited(link) == link \notin page.visited_urls
              fresh == SelectSeq(page.links, Unvisited)
          IN  /\ visited_urls' = page.visited_urls
              /\ pages_crawled' = page.pages_crawled
              /\ crawled' = IF page.fetched
                            THEN Append(crawled, [url |-> url, depth |-> depth])
                            ELSE crawled
              /\ queue' = IF depth < max_depth
                          THEN Tail(queue) \o [i \in 1..Len(fresh) |-> <<fresh[i], depth + 1>>]
                          ELSE Tail(queue)
    /\ UNCHANGED <<batchVars, graph, profVars, loadVars, escVars, mergeVars, dirVars,
                   extractVars, max_pages, max_depth, c_pc>>

\* The loop condition fails and crawl returns.
CrawlReturn ==
    /\ c_pc = "loop"
    /\ ~CrawlContinues
    /\ c_pc' = "done"
    /\ UNCHANGED <<batchVars, graph, profVars, loadVars, escVars, mergeVars, dirVars,
                   extractVars, max_pages, max_depth, visited_urls, pages_crawled, queue,
                   crawled>>

\* ------------------------------------------------------ a loader on its own

\* The (fragment_id, doc_id) a loader is called with: two fragments whose
\* ids start with the same eight characters, and one whose doc_id is the
\* one-character string of a single quote.
LoadArgs ==
    { [fragment_id |-> Fragments[1].fragment_id, doc_id |-> "doc1"],
      [fragment_id |-> Fragments[2].fragment_id, doc_id |-> "doc2"],
      [fragment_id |-> Fragments[3].fragment_id, doc_id |-> "sq"] }

\* The parsed results: up to MaxEntities entities, alternately labelled and
\* unlabelled, with at most one relationship, one of whose indices runs
\* over every integer from below -len(entities) to len(entities).
EntityLists ==
    { [i \in 1..n |-> Entity(IF i % 2 = 1 THEN "Rule" ELSE "", <<"x", "sq">>)] :
          n \in 0..MaxEntities }
Indexes == (0 - MaxEntities - 1)..MaxEntities
RelationshipLists ==
    {<<>>} \cup { <<Relationship(i, 0)>> : i \in Indexes }
           \cup { <<Relationship(0, i)>> : i \in Indexes }
ParsedResults ==
    { [kind |-> "object", entities |-> e, relationships |-> r, requirements |-> 0] :
          e \in EntityLists, r \in RelationshipLists }

\* The ontology of the loader: the one OntologyArgs has.
LoaderOntology == CHOOSE o \in OntologyArgs : UseOntologyMode(o)

\* load_to_graph_generic of the loader under test, every statement
\* accepted by the store: False without a statement when entities is
\* empty, False from the except clause, else True.
LoadGeneric(fragment_id, doc_id, parsed) ==
    LET statements ==
            IF parsed.entities = <<>> THEN <<>>
            ELSE IF l_loader = "batch"
            THEN GenericStatements(fragment_id, doc_id, parsed, LoaderOntology)
            ELSE SyncGenericStatements(fragment_id, doc_id, parsed, LoaderOntology)
    IN  /\ l_pc # "done"
        /\ l_pc' = IF l_pc = "first" THEN "second" ELSE "done"
        /\ graph' = Execute(graph, statements)
        /\ l_calls' = Append(l_calls,
               [fragment_id |-> fragment_id, doc_id |-> doc_id, parsed |-> parsed,
                first |-> Len(graph) + 1, last |-> Len(graph) + Len(statements),
                returned |-> (parsed.entities # <<>> /\ ~GenericRaises(parsed))])
        /\ UNCHANGED <<batchVars, profVars, l_loader, escVars, toolVars>>

\* -------------------------------------------------------- an escape routine

\* The values: every string of up to MaxValueLen characters over the four
\* special characters and one other.
Values == UNION { [1..n -> Special \cup {"x"}] : n \in 0..MaxValueLen }

EscapeValue(routine) ==
    /\ e_routine = "none"
    /\ e_routine' = routine
    /\ e_text' = EscapeBy(routine, e_value)
    /\ UNCHANGED <<batchVars, graph, profVars, loadVars, e_value, toolVars>>

\* ---------------------------------------------------------- specifications

\* The batch lifecycle over two output names and two batches.
Next ==
    \/ \E n \in OutputNames, offset \in {0, 1} :
            Prepare(n, offset, MaxLines, "") /\ UNCHANGED runVars
    \/ \E n \in OutputNames : Submit(n)
    \/ \E n \in OutputNames : RemoveSidecar(n)
    \/ \E b \in BatchIds : RemoveInfo(b)
    \/ \E b \in BatchIds, o \in OntologyArgs : ProcessStart(b, o, {"in_progress", "completed"}, {EntityPayload})
    \/ ProcessLine(0)
    \/ ProcessFinish
    \/ ProcessExit

Spec == Init /\ [][Next]_vars

\* The passes over one batch, with every kind of result line.
NextPass ==
    \/ \E limit \in 1..MaxLines :
            Prepare("batch_requests.jsonl", 0, limit, "") /\ UNCHANGED runVars
    \/ Submit("batch_requests.jsonl")
    \/ \E o \in OntologyArgs : nPasses = 0 /\ ProcessStart(1, o, Statuses, Payloads)
    \/ ProcessLine(MaxDbFailures)
    \/ ProcessFinish
    \/ ProcessExit

SpecPass == Init /\ [][NextPass]_vars

\* check_status against the provider.
NextStatus ==
    \/ Prepare("batch_requests.jsonl", 0, MaxLines, "") /\ UNCHANGED runVars
    \/ Submit("batch_requests.jsonl")
    \/ \E b \in BatchIds, w \in BOOLEAN : MonitorStart(b, w)
    \/ MonitorFetch({EntityPayload})
    \/ MonitorWake
    \/ MonitorExit

SpecStatus == Init /\ [][NextStatus]_vars

\* The prepare command run again and again.
NextPrepare ==
    \E n \in OutputNames, offset \in {0, 1}, limit \in 0..MaxLines,
       domain \in {"", "financial-aml"} :
        PrepareCommand(n, offset, limit, domain)

SpecPrepare == Init /\ [][NextPrepare]_vars

\* The calls into the domain module within one process.
NextProfile ==
    \/ GetProfileCall
    \/ \E profile \in Profiles : SetProfileCall(profile)
    \/ ResetProfileCall
    \/ \E source \in Sources, profile \in Profiles \cup {NoProfile} :
            BuildPromptCall("excerpt1", source[1], source[2], profile)
    \/ \E domain \in {"", "financial-aml"}, o \in OntologyArgs, source \in Sources :
            KGParserMain(domain, o, "excerpt1", source[1], source[2])

SpecProfile == Init /\ [][NextProfile]_vars

\* One generic loader called twice on one store.
InitLoad ==
    /\ InitCommon
    /\ l_loader \in {"batch", "sync"}
    /\ e_value = <<>>
    /\ ToolsIdle

NextLoad ==
    \E a \in LoadArgs, parsed \in ParsedResults :
        LoadGeneric(a.fragment_id, a.doc_id, parsed)

SpecLoad == InitLoad /\ [][NextLoad]_vars

\* Every escape routine on every value.
InitEscape ==
    /\ InitCommon
    /\ l_loader = "batch"
    /\ e_value \in Values
    /\ ToolsIdle

NextEscape == \E routine \in EscapeRoutines : EscapeValue(routine)

SpecEscape == InitEscape /\ [][NextEscape]_vars

\* _deep_merge on every pair of mappings.
InitMerge ==
    /\ InitCommon
    /\ l_loader = "batch"
    /\ e_value = <<>>
    /\ dm_base \in MergeDicts
    /\ dm_override \in MergeDicts
    /\ domains = BuiltinDomains
    /\ ExtractIdle
    /\ CrawlIdle

NextMerge == DeepMergeCall \/ DeepMergeAgain

SpecMerge == InitMerge /\ [][NextMerge]_vars

\* load_profile and get_profile over every domains directory of the chain.
InitInherit ==
    /\ InitCommon
    /\ l_loader = "batch"
    /\ e_value = <<>>
    /\ MergeIdle
    /\ domains \in ChainDirectories
    /\ ExtractIdle
    /\ CrawlIdle

NextInherit ==
    \/ \E name \in ChainNames \cup {"nonexistent-domain"} : LoadProfileCall(name)
    \/ GetProfileCall
    \/ ResetProfileCall
    \/ \E name \in ChainNames, keys \in SUBSET ProfileKeys : InstallProfile(name, keys)

SpecInherit == InitInherit /\ [][NextInherit]_vars

\* extract on every text, locator and authority.
InitExtract ==
    /\ InitCommon
    /\ l_loader = "batch"
    /\ e_value = <<>>
    /\ MergeIdle
    /\ domains = BuiltinDomains
    /\ x_text \in Texts
    /\ x_locator \in Locators
    /\ x_authority \in Authorities
    /\ CrawlIdle

NextExtract == ExtractCall

SpecExtract == InitExtract /\ [][NextExtract]_vars

\* One crawl of the site by a crawler of every page and depth limit; the
\* event loop runs the coroutine until it returns.
InitCrawl ==
    /\ InitCommon
    /\ l_loader = "batch"
    /\ e_value = <<>>
    /\ MergeIdle
    /\ domains = BuiltinDomains
    /\ ExtractIdle
    /\ max_pages \in 0..MaxPages
    /\ max_depth \in 0..MaxDepth

NextCrawl == CrawlStart \/ CrawlTurn \/ CrawlReturn

SpecCrawl == InitCrawl /\ [][NextCrawl]_vars /\ WF_vars(NextCrawl)

\* ----------------------------------------------------------------- claims

\* The lines of the results file the pass reads.
Lines == boutput[p_batch]

\* The pass got past download_results and the metadata lookup.
InPass == pc # "idle" /\ outcome \notin {"not_completed", "no_metadata"}

\* The vertices the store holds for a fragment.
VerticesOf(fragment_id) ==
    { i \in 1..Len(graph) :
        /\ graph[i].op = "vertex"
        /\ graph[i].label # "Requirement"
        /\ graph[i].fragment_id = fragment_id }

\* C1: process_results reconciles only a batch reported completed; on any
\* other status the invocation ends with the not-completed error, writes no
\* results file, opens no connection, counts nothing and leaves the graph
\* as it was.
C1_OnlyCompletedReconciles ==
    (pc # "idle" /\ bstatus[p_batch] # "completed") =>
        /\ pc = "ended"
        /\ outcome = "not_completed"
        /\ p_batch \notin resultsFile
        /\ graph = <<>>
        /\ handled = <<>>
        /\ stats = ZeroStats
        /\ db_conn = "none"

C1_Witness ==
    /\ pc = "ended"
    /\ outcome = "not_completed"
    /\ bstatus[1] = "cancelled"

\* C2: when a pass over a completed batch ends, it ends with the summary
\* and success + failed + skipped is the number of result lines.
C2_EveryLineCounted ==
    (pc = "ended" /\ InPass) =>
        /\ outcome = "summary"
        /\ stats.success + stats.failed + stats.skipped = Len(Lines)

\* C3: a line with the provider's error field is counted failed without a
\* parse and without a statement for its fragment, and a file of e such
\* lines and w entity lines whose load succeeds ends with
\* success = w, failed = e, skipped = 0.
C3_ErrorLinesFail ==
    LET errors == { i \in 1..Len(Lines) : Lines[i].payload.kind = "error" }
        loaded == { i \in 1..Len(handled) :
                      /\ Lines[i].payload.kind = "object"
                      /\ Lines[i].payload.entities # <<>>
                      /\ handled[i] = "success" }
    IN  InPass =>
          /\ \A i \in 1..Len(handled) :
                i \in errors =>
                    /\ handled[i] = "failed_error"
                    /\ VerticesOf(Lines[i].custom_id) = {}
          /\ (pc = "ended" /\ outcome = "summary"
                /\ errors \cup loaded = 1..Len(Lines)) =>
                stats = [success |-> Cardinality(loaded),
                         failed |-> Cardinality(errors), skipped |-> 0]

C3_Witness ==
    /\ pc = "ended"
    /\ outcome = "summary"
    /\ Len(Lines) = 2
    /\ Lines[1].payload.kind = "error"
    /\ Lines[2].payload.entities # <<>>
    /\ stats = [success |-> 1, failed |-> 1, skipped |-> 0]

\* C4: the turn of the loop at a line whose content is not JSON adds one to
\* failed and to nothing else, executes no statement and goes on to the
\* next line.
C4_MalformedFails ==
    [][ (pc = "loop" /\ idx <= Len(Lines) /\ Lines[idx].payload.kind = "malformed") =>
            /\ stats' = [stats EXCEPT !.failed = @ + 1]
            /\ graph' = graph
            /\ db_conn' = db_conn
            /\ pc' = "loop"
            /\ idx' = idx + 1 ]_vars

C4_Witness ==
    /\ pc = "loop"
    /\ Len(handled) = 1
    /\ Lines[1].payload.kind = "malformed"
    /\ stats = [success |-> 0, failed |-> 1, skipped |-> 0]

C6_FailureNeverAborts ==
    (pc = "ended" /\ InPass
        /\ \E i \in 1..Len(handled) :
              handled[i] \in {"failed_error", "failed_json", "failed_load"}) =>
        /\ outcome = "summary"
        /\ Len(handled) = Len(Lines)

\* C7 as stated: a pass for a completed batch whose info record names a
\* side-car that is missing ends with the metadata error.
C7_MissingSidecarIsFatal ==
    (/\ pc # "idle"
     /\ bstatus[p_batch] = "completed"
     /\ info[p_batch] # ""
     /\ sidecar[info[p_batch]] = <<>>) =>
        /\ pc = "ended"
        /\ outcome = "no_metadata"

\* C7 amended: a pass for a completed batch ends with the metadata error
\* exactly when the linked side-car does not resolve and batch_data holds no
\* side-car at all; it then reads no line and leaves the graph as it was.
\* When another side-car exists the pass goes on with the most recent one.
C7_NoSidecarAtAllIsFatal ==
    /\ [] ((pc # "idle" /\ bstatus[p_batch] = "completed") =>
              /\ (outcome = "no_metadata") <=>
                    (/\ info[p_batch] # "" => sidecar[info[p_batch]] = <<>>
                     /\ \A n \in OutputNames : sidecar[n] = <<>>)
              /\ outcome = "no_metadata" =>
                    (pc = "ended" /\ handled = <<>> /\ db_conn = "none"))
    /\ [][ outcome' = "no_metadata" => graph' = graph ]_vars

C7_Witness ==
    /\ pc = "ended"
    /\ outcome = "no_metadata"
    /\ bstatus[p_batch] = "completed"
    /\ info[p_batch] # ""

\* C8: a single-shot check_status returns after exactly one fetch; a
\* watching one returns only on a terminal status, and after every other
\* status it sleeps and fetches again.
C8_StatusPolling ==
    /\ (m_pc = "returned" /\ ~m_watch) => m_fetches = 1
    /\ (m_pc = "returned" /\ m_watch) => m_last \in TerminalStatuses
    /\ m_pc = "sleep" => (m_watch /\ m_last \notin TerminalStatuses)
    /\ (m_pc = "fetch" /\ m_fetches > 0) => (m_watch /\ m_last \notin TerminalStatuses)
    /\ (m_pc \in {"sleep", "returned"}) => m_last = bstatus[m_batch]

C8_Witness ==
    /\ m_pc = "returned"
    /\ m_watch
    /\ m_fetches = 3
    /\ m_last = "expired"

\* C9: when the info record of the batch exists and the side-car it names
\* exists, the pass loads exactly that side-car, whichever side-car was
\* modified last; another side-car is loaded only when that linkage does not
\* resolve, and it is then the most recently modified one.
C9_LinkedSidecarUsed ==
    (InPass /\ bstatus[p_batch] = "completed") =>
        IF info[p_batch] # "" /\ sidecar[info[p_batch]] # <<>>
        THEN /\ p_meta = info[p_batch]
             /\ p_lookup = sidecar[info[p_batch]]
        ELSE /\ p_meta = Head(mtimeOrder)
             /\ p_lookup = sidecar[Head(mtimeOrder)]

C9_Witness ==
    /\ pc = "loop"
    /\ bstatus[1] # "none"
    /\ bstatus[2] # "none"
    /\ info[1] # info[2]
    /\ p_meta = info[p_batch]
    /\ Head(mtimeOrder) # p_meta
    /\ sidecar[Head(mtimeOrder)] # p_lookup

\* The statements one ontology-mode pass over batch b executes that create
\* the vertex with this synthetic id for this fragment.
CreatesIn(b, id, fragment_id) ==
    LET ontology == CHOOSE o \in OntologyArgs : UseOntologyMode(o)
        made(i) ==
            IF boutput[b][i].custom_id = fragment_id
            THEN LET entity_ids == EntityIds(fragment_id, boutput[b][i].payload,
                                             ontology)
                 IN  Cardinality({ j \in 1..Len(entity_ids) : entity_ids[j].id = id })
            ELSE 0
        sum[i \in 0..Len(boutput[b])] ==
            IF i = 0 THEN 0 ELSE sum[i - 1] + made(i)
    IN  sum[Len(boutput[b])]

\* The same over all the passes made so far.
RECURSIVE CreatedSoFar(_, _, _)
CreatedSoFar(batches, id, fragment_id) ==
    IF batches = {} THEN 0
    ELSE LET b == CHOOSE x \in batches : TRUE
         IN  passesDone[b] * CreatesIn(b, id, fragment_id)
                + CreatedSoFar(batches \ {b}, id, fragment_id)

StatementsOf(call) == call.first..call.last

\* C11: in both generic loaders, the vertex created for the entity at
\* index i of a result loaded for fragment f has the synthetic id made of
\* the entity's label (the ontology's root node when it has none), the
\* first eight characters of f and i, counted from 0; two calls with the
\* same (fragment_id, parsed_result) give the vertices the same ids.
C11_SyntheticIds ==
    /\ \A c \in 1..Len(l_calls) :
          \A i \in 1..Len(l_calls[c].parsed.entities) :
            LET call == l_calls[c]
                st == graph[call.first + i - 1]
                entity == call.parsed.entities[i]
                label == IF entity._label # "" THEN entity._label ELSE "Thing"
                prefix == SubSeq(call.fragment_id, 1, IdPrefixLen)
            IN  /\ st.op = "vertex"
                /\ st.fragment_id = call.fragment_id
                /\ st.id = <<label, prefix, i - 1>>
                /\ IdString(st.id) = <<label, "_">> \o prefix \o <<"_", ToString(i - 1)>>
    /\ \A c, d \in 1..Len(l_calls) :
          (/\ l_calls[c].fragment_id = l_calls[d].fragment_id
           /\ l_calls[c].parsed = l_calls[d].parsed) =>
              \A i \in 1..Len(l_calls[c].parsed.entities) :
                  graph[l_calls[c].first + i - 1].id = graph[l_calls[d].first + i - 1].id

C11_Witness ==
    /\ l_pc = "done"
    /\ l_loader = "sync"
    /\ l_calls[1].fragment_id = l_calls[2].fragment_id
    /\ l_calls[1].parsed = l_calls[2].parsed
    /\ Len(l_calls[1].parsed.entities) = 2
    /\ graph[l_calls[2].first + 1].id = graph[l_calls[1].first + 1].id
    /\ graph[l_calls[2].first + 1].id[3] = 1

\* C12: two vertices of the store have the same synthetic id only if they
\* were created for the same fragment_id, and the vertices an edge
\* statement matches by label and synthetic id when it is executed were all
\* created for the fragment the statement was issued for.
C12_IdsScopedToFragment ==
    /\ \A i, j \in 1..Len(graph) :
          (graph[i].op = "vertex" /\ graph[j].op = "vertex" /\ graph[i].id = graph[j].id)
              => graph[i].fragment_id = graph[j].fragment_id
    /\ \A c \in 1..Len(l_calls) : \A k \in StatementsOf(l_calls[c]) :
          graph[k].op = "edge" =>
              \A v \in 1..(k - 1) :
                  (/\ graph[v].op = "vertex"
                   /\ \/ graph[v].label = graph[k].from_label /\ graph[v].id = graph[k].from
                      \/ graph[v].label = graph[k].to_label /\ graph[v].id = graph[k].to)
                      => graph[v].fragment_id = l_calls[c].fragment_id

\* C13: a call of a generic loader on a result with entities executes one
\* edge statement per relationship whose two indices are both in
\* 0..len(entities)-1 and none for any other, and returns True whatever
\* the indices are.
C13_EdgesOnlyForValidIndexes ==
    \A c \in 1..Len(l_calls) :
        LET call == l_calls[c]
            n == Len(call.parsed.entities)
            rels == call.parsed.relationships
            valid == { r \in 1..Len(rels) :
                         /\ 0 <= rels[r]._from_index /\ rels[r]._from_index < n
                         /\ 0 <= rels[r]._to_index /\ rels[r]._to_index < n }
            edges == { k \in StatementsOf(call) : graph[k].op = "edge" }
        IN  n > 0 =>
              /\ Cardinality(edges) = Cardinality(valid)
              /\ call.returned

\* C14: the text interpolated for every string value of every statement a
\* generic loader executes is what the loader's escape routine returns for
\* that value (cut to 500 characters).
C14_EveryValueEscaped ==
    \A k \in 1..Len(graph) :
        LET values == IF l_loader = "batch" THEN QueryValues(graph[k])
                      ELSE SyncQueryValues(graph[k])
        IN  \A p \in 1..Len(values) :
                values[p].text = (IF l_loader = "batch"
                                  THEN EscapeCypher(Truncate(values[p].raw))
                                  ELSE SyncEscapeCypher(Truncate(values[p].raw)))

\* The content the query language reads from the text between two single
\* quotes: a backslash makes the backslash or quote after it literal; a
\* quote without one ends the literal early, and so does a backslash with
\* nothing to escape.
Broken == <<"broken">>
RECURSIVE ReadLiteral(_)
ReadLiteral(text) ==
    IF text = <<>> THEN <<>>
    ELSE IF Head(text) = "sq" THEN Broken
    ELSE IF Head(text) = "bs"
    THEN IF Len(text) >= 2 /\ text[2] \in {"bs", "sq", "dq"}
         THEN LET rest == ReadLiteral(SubSeq(text, 3, Len(text)))
              IN  IF rest = Broken THEN Broken ELSE <<text[2]>> \o rest
         ELSE Broken
    ELSE LET rest == ReadLiteral(Tail(text))
         IN  IF rest = Broken THEN Broken ELSE <<Head(text)>> \o rest

\* The characters of a string.
Chars(value) == { value[i] : i \in 1..Len(value) }

\* C15: every escape routine of the loaders returns the value with the
\* backslashes doubled, then the quotes escaped, then the newlines made
\* spaces, and what the query language reads from the escaped text of a
\* value without newlines is the value.
C15_EscapeRoundTrip ==
    e_routine # "none" =>
        /\ e_text = Replace(Replace(Replace(Replace(e_value,
                        "bs", <<"bs", "bs">>), "sq", <<"bs", "sq">>),
                        "dq", <<"bs", "dq">>), "nl", <<"sp">>)
        /\ "nl" \notin Chars(e_value) => ReadLiteral(e_text) = e_value

\* C16: every call of build_prompt whose ontology has no node definitions
\* or no json_schema ends with the configuration error, not with a prompt.
C16_UnusableOntologyRaises ==
    \A i \in 1..Len(bp_last) :
        (bp_last[i].ontology.nodes = 0 \/ bp_last[i].ontology.json_schema = "")
            => bp_last[i].raised

\* C17: two calls of build_prompt with equal arguments return the same
\* (system_message, user_prompt), whatever get_profile, set_profile or
\* reset_profile did before or between them, and a call of build_prompt
\* leaves the cached active profile as it was.
C17_BuildPromptPure ==
    /\ [] ((bp_prev # <<>> /\ bp_last # <<>> /\ bp_prev[1].args = bp_last[1].args)
              => bp_prev[1].result = bp_last[1].result)
    /\ [][ last_op'.op = "build_prompt" => active_profile' = active_profile ]_vars

\* C18: the prompt the parser sends for a fragment when --ontology names an
\* ontology is the ontology prompt rendered from that ontology's node
\* definitions and json_schema, whatever ontology the active profile has.
C18_ExplicitOntologyInPrompt ==
    (last_op.op = "parse" /\ last_op.explicit.given) =>
        /\ last_op.sent.user_prompt.format = "ontology"
        /\ last_op.sent.user_prompt.nodes = last_op.explicit.nodes
        /\ last_op.sent.user_prompt.json_schema = last_op.explicit.json_schema

C20_ResettableSingleton ==
    /\ [] (/\ (last_op.op = "get_profile") =>
                 /\ last_op.returned = active_profile
                 /\ last_op.returned \in Profiles
                 /\ (last_set # NoProfile => last_op.returned = last_set)
                 /\ (last_set = NoProfile =>
                        last_op.returned = LoadProfile(DefaultProfileName))
            /\ (last_op.op = "set_profile" => active_profile = last_set)
            /\ (last_op.op = "reset_profile" => active_profile = NoProfile))
    /\ [][ last_op'.op = "get_profile" =>
              IF active_profile # NoProfile
              THEN last_op'.returned = active_profile /\ active_profile' = active_profile
              ELSE last_op'.returned = LoadProfile(DefaultProfileName) ]_vars

C20_Witness ==
    /\ last_op.op = "get_profile"
    /\ last_set = AmlProfile
    /\ last_op.returned = AmlProfile
    /\ bp_last # <<>>

\* The result holds every key of either input and, where both inputs define
\* a key, the child's value unless both values are mappings, in which case
\* the same holds one level down.
RECURSIVE ChildWins(_, _, _)
ChildWins(base, child, merged) ==
    /\ DOMAIN merged = DOMAIN base \cup DOMAIN child
    /\ \A key \in DOMAIN base \cap DOMAIN child :
          IF base[key].kind = "dict" /\ child[key].kind = "dict"
          THEN /\ merged[key].kind = "dict"
               /\ ChildWins(base[key].items, child[key].items, merged[key].items)
          ELSE merged[key] = child[key]

\* C21: _deep_merge(base, child) contains every key of either input; at
\* every key path where both define a value and not both values are
\* mappings the result holds the child's value, a list or scalar of the
\* child replacing the base's value whole; and merging the result with an
\* empty child returns the result unchanged.
C21_ChildWinsAndIdempotent ==
    /\ dm_merged # <<>> => ChildWins(dm_base, dm_override, dm_merged[1])
    /\ dm_again # <<>> => dm_again = dm_merged

C21_Witness ==
    /\ dm_again # <<>>
    /\ dm_base = [parsing |-> Mapping([requirement_types |-> ListValue(<<"x">>),
                                       parsing |-> Scalar("x")]),
                  requirement_types |-> ListValue(<<"x">>)]
    /\ dm_override = [parsing |-> Mapping([requirement_types |-> ListValue(<<"y">>)])]
    /\ dm_merged[1].parsing.items.requirement_types = ListValue(<<"y">>)
    /\ dm_merged[1].parsing.items.parsing = Scalar("x")
    /\ dm_merged[1].requirement_types = ListValue(<<"x">>)

\* A profile file of the directory defines this key of `parsing`.
Defines(dir, name, key) == key \in DOMAIN GetMapping(dir[name], "parsing")

\* C22: load_profile resolves `extends` over the whole chain before
\* validation: when A extends B and B extends C, the loaded A holds, for
\* every key, A's value where A defines it, else B's value where B defines
\* it, else C's value where C defines it.
C22_WholeChainResolved ==
    \A c \in 1..Len(lp_last) :
        (/\ lp_last[c].name = "food-safety-ca"
         /\ ChainNames \subseteq DOMAIN domains) =>
            /\ lp_last[c].raised = ""
            /\ \A key \in ProfileKeys :
                  LET held == lp_last[c].profile.parsing[key]
                  IN  IF Defines(domains, "food-safety-ca", key)
                      THEN held = "food-safety-ca"
                      ELSE IF Defines(domains, "food-safety", key)
                      THEN held = "food-safety"
                      ELSE Defines(domains, "default", key) => held = "default"

\* C23: load_profile with a name for which the directory has no file
\* raises a not-found error whose message lists the names of the files
\* there are, and returns no profile; when that happens inside get_profile
\* the cached profile stays unset, and a later get_profile loads again: it
\* returns and caches the default profile once its file is there.
C23_NotFoundListsAndCachesNothing ==
    /\ [] (/\ \A c \in 1..Len(lp_last) :
                 lp_last[c].name \notin DOMAIN lp_last[c].dir =>
                     /\ lp_last[c].raised = "FileNotFoundError: Domain profile not found"
                     /\ lp_last[c].available = DOMAIN lp_last[c].dir
                     /\ lp_last[c].profile = NoProfile
           /\ last_op.op = "get_profile raised" => active_profile = NoProfile)
    /\ [][ (/\ active_profile = NoProfile
            /\ last_op'.op \in {"get_profile", "get_profile raised"}
            /\ domains' = domains /\ lp_last' = lp_last) =>
               IF DefaultProfileName \in DOMAIN domains
               THEN /\ last_op'.op = "get_profile"
                    /\ last_op'.returned.name = DefaultProfileName
                    /\ active_profile' = last_op'.returned
               ELSE /\ last_op'.op = "get_profile raised"
                    /\ last_op'.available = DOMAIN domains
                    /\ active_profile' = NoProfile ]_vars

C23_Witness ==
    /\ last_op.op = "get_profile"
    /\ last_op.failed_before
    /\ active_profile.name = "default"
    /\ lp_last # <<>>
    /\ lp_last[1].name = "nonexistent-domain"
    /\ lp_last[1].raised # ""
    /\ lp_last[1].available = {"default", "food-safety"}

\* C24: extract returns the canonical-locator result, with method
\* 'canonical_locator', whenever a non-empty locator yields an id other than
\* UNKNOWN with confidence >= 0.80, whatever the text is; otherwise the
\* text-regex result with method 'regex' when the text yields an id; and
\* provision_id 'UNKNOWN' with confidence 0.0 and method 'none' exactly
\* when neither yields an id, so that the confidence is 0.0 if and only if
\* the provision_id is 'UNKNOWN'.
C24_LocatorThenTextThenUnknown ==
    x_result # <<>> =>
        LET result == x_result[1]
            ofLocator == ExtractFromCanonicalLocator(x_locator)
            ofText == ExtractFromText(x_text, x_authority)
            locatorYields == /\ x_locator # <<>>
                             /\ ofLocator.provision_id # <<"UNKNOWN">>
                             /\ ofLocator.confidence >= 80
            textYields == ofText.provision_id # <<"UNKNOWN">>
        IN  /\ locatorYields =>
                 /\ result = ofLocator
                 /\ result.method = "canonical_locator"
                 /\ result = Extract(<<>>, x_locator, x_authority)
            /\ (~locatorYields /\ textYields) =>
                 /\ result = ofText
                 /\ result.method = "regex"
            /\ (~locatorYields /\ ~textYields) <=>
                 /\ result.provision_id = <<"UNKNOWN">>
                 /\ result.confidence = 0
                 /\ result.method = "none"
            /\ result.confidence = 0 <=> result.provision_id = <<"UNKNOWN">>
            /\ result.method = "none" <=> result.provision_id = <<"UNKNOWN">>

C24_Witness ==
    /\ x_result # <<>>
    /\ x_locator = <<"2020.1">>
    /\ x_text = <<"B.01.008">>
    /\ x_authority = "CFIA"
    /\ x_result[1].provision_id = <<"2020.1">>
    /\ x_result[1].confidence = 80
    /\ x_result[1].method = "canonical_locator"
    /\ ExtractFromText(x_text, x_authority).confidence = 85

\* C25: a candidate id is rejected exactly when an exclusion pattern
\* matches the whole of it, not a part of it; a rejected candidate is never
\* the id returned; and for a text that holds a four-digit year and no
\* number or id besides it, with an empty locator, extract returns
\* provision_id 'UNKNOWN'.
C25_YearsRejectedWhole ==
    x_result # <<>> =>
        /\ \A i \in 1..Len(x_tried) :
              /\ x_tried[i].rejected <=> x_tried[i].candidate = "2020"
              /\ x_tried[i].rejected =>
                    x_result[1].provision_id # <<x_tried[i].candidate>>
        /\ (/\ x_locator = <<>>
            /\ \E i \in 1..Len(x_text) : x_text[i] = "2020"
            /\ \A i \in 1..Len(x_text) :
                  x_text[i] \in {"the", "Section", "Chapter", "2020"}) =>
              x_result[1].provision_id = <<"UNKNOWN">>

C25_Witness ==
    /\ x_result # <<>>
    /\ x_locator = <<>>
    /\ x_text = <<"Chapter", "2020", "the">>
    /\ x_authority = "Department of Justice"
    /\ x_tried = << [candidate |-> "2020", rejected |-> TRUE] >>
    /\ x_result[1].provision_id = <<"UNKNOWN">>
    /\ x_result[1].method = "none"

\* The statements the pass has for the result line i of the batch.
StatementsForLine(i) ==
    LET line == boutput[p_batch][i]
    IN  IF UseOntologyMode(p_ont)
        THEN GenericStatements(line.custom_id, MetaOf(p_lookup, line.custom_id, "doc_id"),
                               line.payload, p_ont)
        ELSE DomainStatements(line.custom_id, MetaOf(p_lookup, line.custom_id, "doc_id"),
                              MetaOf(p_lookup, line.custom_id, "authority"), line.payload)

\* What the lines 1..n handled so far had executed, line after line.
RECURSIVE IssuedUpTo(_)
IssuedUpTo(n) ==
    IF n = 0 THEN <<>>
    ELSE IssuedUpTo(n - 1)
            \o (IF handled[n] \in {"success", "failed_load"}
                THEN SubSeq(StatementsForLine(n), 1, p_issued[n]) ELSE <<>>)

\* C26: within one pass the result lines are handled in file order, and
\* the statements executed are those of the first line, then those of the
\* second, and so on: before the first statement of a line all the
\* statements of the line before it were executed, or that line was counted
\* failed.
C26_LinesInOrderNoInterleaving ==
    (InPass /\ bstatus[p_batch] = "completed") =>
        /\ Len(handled) = Len(p_issued)
        /\ Len(handled) = (IF outcome = "exception" THEN idx - 1
                           ELSE IF pc = "loop" THEN idx - 1
                           ELSE Len(boutput[p_batch]))
        /\ graph = IssuedUpTo(Len(handled))
        /\ \A i \in 1..Len(handled) :
              \/ handled[i] \in {"failed_load", "failed_error", "failed_json"}
              \/ handled[i] \in {"skipped_nochoices", "skipped_empty"} /\ p_issued[i] = 0
              \/ handled[i] = "success" /\ p_issued[i] = Len(StatementsForLine(i))

C26_Witness ==
    /\ pc = "ended"
    /\ outcome = "summary"
    /\ Len(handled) = 2
    /\ handled[1] = "failed_load"
    /\ p_issued[1] = 1
    /\ handled[2] = "success"
    /\ p_issued[2] = 2
    /\ Len(graph) = 3

\* C27: the connection to the graph store is opened only when the first
\* fragment is handed to the loader and stays the one open connection for
\* the rest of the pass; and when the invocation has ended, by the summary,
\* by an early fatal return or by an error raised while a result line was
\* handled, the connection is closed.
C27_ConnectionClosedAtEnd ==
    /\ db_conn = "open" =>
          \E i \in 1..Len(handled) : handled[i] \in {"success", "failed_load"}
    /\ (pc = "loop" /\ \E i \in 1..Len(handled) : handled[i] \in {"success", "failed_load"})
          => db_conn = "open"
    /\ pc = "ended" => db_conn # "open"

\* C28: every vertex a pass loads for a fragment carries the doc_id that
\* prepare recorded for that fragment_id, whatever prepare, submit and
\* process commands ran before over whatever batches and output names; no
\* vertex is loaded with the placeholder doc_id.
C28_VerticesCarryRecordedDocId ==
    \A i \in 1..Len(graph) :
        (graph[i].op = "vertex" /\ "doc_id" \in DOMAIN graph[i]) =>
            /\ graph[i].doc_id # "UNKNOWN"
            /\ \E f \in 1..Len(Fragments) :
                  /\ Fragments[f].fragment_id = graph[i].fragment_id
                  /\ Fragments[f].doc_id = graph[i].doc_id

\* C29: a pass over a batch reads the results in the mode of the prompts
\* prepare wrote for the batch: in ontology mode exactly when the requests
\* of the batch carry the ontology prompt.
C29_ProcessModeIsPromptMode ==
    (InPass /\ bstatus[p_batch] = "completed") =>
        \A i \in 1..Len(binput[p_batch]) :
            UseOntologyMode(p_ont)
                <=> binput[p_batch][i].messages.user_prompt.format = "ontology"

\* The state part of C30: the counter and the visited set agree with each
\* other and with the pages fetched, the counter is within the page limit,
\* the pages fetched are distinct and within the depth limit, and crawl has
\* returned only with an empty queue or a reached page limit.
CrawlInvariant ==
    /\ pages_crawled = Cardinality(visited_urls)
    /\ pages_crawled <= max_pages
    /\ Len(crawled) = pages_crawled
    /\ { crawled[i].url : i \in 1..Len(crawled) } = visited_urls
    /\ \A i, j \in 1..Len(crawled) : i # j => crawled[i].url # crawled[j].url
    /\ \A i \in 1..Len(crawled) : crawled[i].depth <= max_depth
    /\ c_pc = "done" => (queue = <<>> \/ pages_crawled >= max_pages)

\* C30: at every point of WebCrawler.crawl, pages_crawled equals the number
\* of visited URLs and is at most max_pages, no URL is crawled twice, every
\* crawled page was reached at a depth of at most max_depth, and the crawl
\* terminates when the queue is empty or max_pages pages have been crawled:
\* it takes no further turn then, and it does return.
C30_CrawlBoundedAndTerminates ==
    /\ []CrawlInvariant
    /\ [][(c_pc = "loop" /\ ~CrawlContinues) => c_pc' = "done"]_vars
    /\ <>(c_pc = "done")

\* C30, its case: a crawl that returned at the page limit with links still
\* queued, after fetching a page at the depth limit and more than one page.
C30_Witness ==
    /\ c_pc = "done"
    /\ queue # <<>>
    /\ pages_crawled = max_pages
    /\ pages_crawled > 1
    /\ max_depth > 0
    /\ \E i \in 1..Len(crawled) : crawled[i].depth = max_depth

====
